---- MODULE Spec2Model ----
(***************************************************************************)
(* Event pipeline: S3 arrival -> trigger (validator/publisher) -> SQS      *)
(* queue with redrive policy -> worker (consumer) -> DynamoDB result store.*)
(* Strings the code takes apart (object keys) are sequences of one-        *)
(* character strings; strings it only compares or stores are TLA+ strings. *)
(* The clock counts seconds.                                               *)
(***************************************************************************)
EXTENDS Integers, Sequences, FiniteSets, TLC

VARIABLES
    s3events,   \* S3 event batches not yet handed to the trigger lambda
    trigLog,    \* what the trigger's last invocation did, per notification
    queue,      \* the SQS processing queue: every message ever sent, with its state
    wk,         \* the worker lambda invocation: position and locals
    parser,     \* the aggregation of the LogParser the worker built last
    store,      \* the DynamoDB results table: a set of items
    lastPut,    \* per job_id, the item of the last PutItem that succeeded, and their number
    built,      \* per message, the statistics of each Result built from its file
    clock,      \* time.Now(), in seconds
    scan        \* a LogParser.Parse call running on its own: its loop and aggregation

pipelineVars == <<s3events, trigLog, queue, wk, parser, store, lastPut, built, clock>>

vars == <<s3events, trigLog, queue, wk, parser, store, lastPut, built, clock, scan>>

-----------------------------------------------------------------------------
(* Bounds of the model.                                                    *)

MaxClock == 1
MaxMsgs == 1
MaxTrigBatch == 2
MaxWorkerBatch == 2
MaxLines == 3

-----------------------------------------------------------------------------
(* Program constants.                                                      *)

\* variables.tf: sqs_max_receive_count, default 3
maxReceiveCount == 3
\* worker/main.go: time.Now().Add(7 * 24 * time.Hour).Unix()
RetentionSeconds == 604800

-----------------------------------------------------------------------------
(* strings.ToLower, strings.HasSuffix, strings.Split on character          *)
(* sequences.                                                              *)

UpperChars == <<"A","B","C","D","E","F","G","H","I","J","K","L","M",
                "N","O","P","Q","R","S","T","U","V","W","X","Y","Z">>
LowerChars == <<"a","b","c","d","e","f","g","h","i","j","k","l","m",
                "n","o","p","q","r","s","t","u","v","w","x","y","z">>

ToLowerChar(c) ==
    IF \E i \in 1..Len(UpperChars) : UpperChars[i] = c
    THEN LowerChars[CHOOSE i \in 1..Len(UpperChars) : UpperChars[i] = c]
    ELSE c

ToLower(s) == [i \in 1..Len(s) |-> ToLowerChar(s[i])]

HasSuffix(s, suffix) ==
    /\ Len(s) >= Len(suffix)
    /\ SubSeq(s, Len(s) - Len(suffix) + 1, Len(s)) = suffix

\* strings.Split(s, sep) for a one-character separator: the pieces between
\* the separators, empty pieces included; no separator gives <<s>>.
RECURSIVE SplitFrom(_, _, _, _)
SplitFrom(s, sep, i, cur) ==
    IF i > Len(s) THEN <<cur>>
    ELSE IF s[i] = sep THEN <<cur>> \o SplitFrom(s, sep, i + 1, <<>>)
    ELSE SplitFrom(s, sep, i + 1, Append(cur, s[i]))

Split(s, sep) == SplitFrom(s, sep, 1, <<>>)

\* The Go string a character sequence stands for.
RECURSIVE Join(_)
Join(s) == IF s = <<>> THEN "" ELSE Head(s) \o Join(Tail(s))

DotJson == <<".","j","s","o","n">>
LogsTest == <<"l","o","g","s","/","t","e","s","t">>

-----------------------------------------------------------------------------
(* Object keys of the uploads bucket.                                      *)

\* logs/test_42_20240101T000000.json
KeyGood == <<"l","o","g","s","/","t","e","s","t","_","4","2","_",
             "2","0","2","4","0","1","0","1","T","0","0","0","0","0","0",
             ".","j","s","o","n">>
\* logs/readme.txt
KeyReadme == <<"l","o","g","s","/","r","e","a","d","m","e",".","t","x","t">>
\* logs/test_bad.json
KeyBad == <<"l","o","g","s","/","t","e","s","t","_","b","a","d",
            ".","j","s","o","n">>
\* logs/test_7_a.JSON
KeyUpper == <<"l","o","g","s","/","t","e","s","t","_","7","_","a",
              ".","J","S","O","N">>
\* data/test_42_x.json
KeyData == <<"d","a","t","a","/","t","e","s","t","_","4","2","_","x",
             ".","j","s","o","n">>

Keys == {KeyGood, KeyReadme, KeyBad, KeyUpper, KeyData}

\* logs/test_42_b.json: a second object of test 42
KeySecond == <<"l","o","g","s","/","t","e","s","t","_","4","2","_","b",
               ".","j","s","o","n">>

\* logs/test__x.json: nothing between the first two underscores
KeyEmptyID == <<"l","o","g","s","/","t","e","s","t","_","_","x",
                ".","j","s","o","n">>
\* logs/test_4_2_x.json: an underscore more
KeyExtra == <<"l","o","g","s","/","t","e","s","t","_","4","_","2","_","x",
              ".","j","s","o","n">>

Bucket == "uploads"

-----------------------------------------------------------------------------
(* JSON documents.  A document is an object (a function from member names  *)
(* to typed values) or text that is not JSON.  Log lines add the shapes    *)
(* the line scanner distinguishes.                                         *)

JStr(s) == [t |-> "string", v |-> s]
JNum(n) == [t |-> "number", v |-> n]
JObject(members) == [kind |-> "object", fields |-> members]
NotJson == [kind |-> "text"]

\* encoding/json decoding one member into a struct field of Go type `type`:
\* an absent member leaves the zero value, a member of another JSON type is
\* an UnmarshalTypeError.
MemberTypeOK(doc, name, type) ==
    name \in DOMAIN doc.fields => doc.fields[name].t = type

Member(doc, name, zero) ==
    IF name \in DOMAIN doc.fields THEN doc.fields[name].v ELSE zero

-----------------------------------------------------------------------------
(* models.ProcessingJob and its JSON encoding.                             *)

JobStringFields == {"job_id", "bucket", "content_type", "received_at", "validated_at"}

\* json.Marshal(job): the struct's fields under their json tags.
MarshalJob(job) ==
    JObject([job_id       |-> JStr(job.JobID),
             bucket       |-> JStr(job.Bucket),
             key          |-> JStr(job.Key),
             size         |-> JNum(job.Size),
             content_type |-> JStr(job.ContentType),
             received_at  |-> JStr(job.ReceivedAt),
             validated_at |-> JStr(job.ValidatedAt)])

ZeroJob ==
    [JobID |-> "", Bucket |-> "", Key |-> <<>>, Size |-> 0, ContentType |-> "",
     ReceivedAt |-> 0, ValidatedAt |-> 0]

\* json.Unmarshal([]byte(record.Body), &job)
UnmarshalJob(body) ==
    IF body.kind # "object" THEN [ok |-> FALSE, job |-> ZeroJob]
    ELSE IF ~(/\ \A f \in JobStringFields \cup {"key"} : MemberTypeOK(body, f, "string")
              /\ MemberTypeOK(body, "size", "number"))
    THEN [ok |-> FALSE, job |-> ZeroJob]
    ELSE [ok |-> TRUE,
          job |-> [JobID       |-> Member(body, "job_id", ""),
                   Bucket      |-> Member(body, "bucket", ""),
                   Key         |-> Member(body, "key", <<>>),
                   Size        |-> Member(body, "size", 0),
                   ContentType |-> Member(body, "content_type", ""),
                   ReceivedAt  |-> Member(body, "received_at", 0),
                   ValidatedAt |-> Member(body, "validated_at", 0)]]

-----------------------------------------------------------------------------
(* The uploads bucket.  HeadObject and GetObject of an object may fail     *)
(* (missing, access denied): the caller's environment decides.             *)

ObjectSize(key) == Len(key) * 10
ObjectContentType(key) == "application/json"

-----------------------------------------------------------------------------
(* cmd/trigger: the validator/publisher.                                   *)

\* One storage-arrival notification (events.S3EventRecord).
Notification(key) == [bucket |-> Bucket, key |-> key, eventTime |-> 0]

\* The metrics collector at an `if metricsCollector != nil { EmitBatch }`:
\* absent (NewCollector failed in init), or present with PutMetricData
\* succeeding or failing.
MetricsOutcomes == {"nil", "sent", "failed"}

\* What a record or a trail keeps of the emission: none was attempted
\* ("none"), or the outcome.
EmitBatch(m) == m

\* A caller that returns EmitBatch's error.
AfterEmitPropagating(err, m) ==
    IF err = "" /\ m = "failed" THEN "failed to emit batch metrics" ELSE err

\* The caller's error after the emission: EmitBatch's result is discarded.
AfterEmit(err, m) == err

\* What the collaborators answer for one notification.
TriggerEnv == [headOK : BOOLEAN, sendOK : BOOLEAN, metrics : MetricsOutcomes]

NoSend == <<>>

\* A suffix test that forgets strings.ToLower.
IsJSONFileCaseSensitive(key) == HasSuffix(key, DotJson)

\* strings.HasSuffix(strings.ToLower(key), ".json")
IsJSONFile(key) == HasSuffix(ToLower(key), DotJson)

\* An extraction that indexes the pieces one off.
ExtractTestIDOffByOne(key) ==
    LET parts == Split(key, "_")
    IN  IF Len(parts) >= 3 /\ parts[1] = LogsTest
        THEN [ok |-> TRUE, jobID |-> Join(parts[3])]
        ELSE [ok |-> FALSE, jobID |-> ""]

\* An extraction that wants a test_id that is not empty.
ExtractTestIDNonEmpty(key) ==
    LET parts == Split(key, "_")
    IN  IF Len(parts) >= 3 /\ parts[1] = LogsTest /\ parts[2] # <<>>
        THEN [ok |-> TRUE, jobID |-> Join(parts[2])]
        ELSE [ok |-> FALSE, jobID |-> ""]

\* The test_id of a key "logs/test_{test_id}_{timestamp}.json": the second
\* piece of the key split at "_", given at least 3 pieces, the first of
\* them "logs/test".
ExtractTestID(key) ==
    LET parts == Split(key, "_")
    IN  IF Len(parts) >= 3 /\ parts[1] = LogsTest
        THEN [ok |-> TRUE, jobID |-> Join(parts[2])]
        ELSE [ok |-> FALSE, jobID |-> ""]

\* A SendMessage whose JobID attribute is the object's key.
SendMessageInputKeyAttribute(job) ==
    [body |-> MarshalJob(job), attrJobID |-> Join(job.Key)]

\* The sqs.SendMessageInput for a job: the serialized job as the body, the
\* job's JobID as the message attribute "JobID".
SendMessageInput(job) == [body |-> MarshalJob(job), attrJobID |-> job.JobID]

\* processRecord: err "" is nil; head says whether HeadObject was called;
\* msgs are the SendMessage calls that succeeded; log is the line printed;
\* metric is what became of the metrics emitted for the record.
processRecord(record, e, now) ==
    LET key == record.key
        id == ExtractTestID(key)
    IN  IF ~IsJSONFile(key)
        THEN [err |-> "", head |-> FALSE, msgs |-> NoSend,
              log |-> "Skipping non-JSON file", metric |-> "none"]
        ELSE IF ~e.headOK
        THEN [err |-> "failed to head object", head |-> TRUE, msgs |-> NoSend,
              log |-> "", metric |-> "none"]
        ELSE IF ~id.ok
        THEN [err |-> "could not extract test_id from key", head |-> TRUE,
              msgs |-> NoSend, log |-> "", metric |-> "none"]
        ELSE LET job == [JobID       |-> id.jobID,
                         Bucket      |-> record.bucket,
                         Key         |-> key,
                         Size        |-> ObjectSize(key),
                         ContentType |-> ObjectContentType(key),
                         ReceivedAt  |-> record.eventTime,
                         ValidatedAt |-> now]
             IN  IF ~e.sendOK
                 THEN [err |-> "failed to send SQS message", head |-> TRUE,
                       msgs |-> NoSend, log |-> "", metric |-> "none"]
                 ELSE [err |-> AfterEmit("", e.metrics), head |-> TRUE,
                       msgs |-> <<SendMessageInput(job)>>,
                       log |-> "Queued job", metric |-> EmitBatch(e.metrics)]

\* A handler that gives up the batch at the first failed record.
AbortBatchOnError(i, n) == n + 1

\* Where the trigger's loop goes after a record whose processRecord failed:
\* `continue`, the next record.
AfterRecordError(i, n) == i + 1

Unprocessed ==
    [err |-> "", head |-> FALSE, msgs |-> NoSend, log |-> "unprocessed",
     metric |-> "none"]

\* The trigger handler's loop over s3Event.Records; on a record's error it
\* emits TriggerFailures and continues; the handler returns nil.
RECURSIVE TriggerLoop(_, _, _, _, _)
TriggerLoop(records, env, now, i, out) ==
    IF i > Len(records) THEN out
    ELSE LET r == processRecord(records[i], env[i], now)
             done == [out EXCEPT ![i] =
                        IF r.err # "" THEN [r EXCEPT !.metric = EmitBatch(env[i].metrics)]
                        ELSE r]
         IN  IF r.err # ""
             THEN TriggerLoop(records, env, now, AfterRecordError(i, Len(records)), done)
             ELSE TriggerLoop(records, env, now, i + 1, done)

RECURSIVE Sent(_, _)
Sent(out, i) == IF i > Len(out) THEN <<>> ELSE out[i].msgs \o Sent(out, i + 1)

\* A message as the queue holds it.
QueueMessage(m) ==
    [body |-> m.body, attrJobID |-> m.attrJobID, receiveCount |-> 0,
     state |-> "visible"]

\* A SendMessage that is repeated after it succeeded.
EnqueueTwice(q, msgs) ==
    q \o [i \in 1..(2 * Len(msgs)) |-> QueueMessage(msgs[(i + 1) \div 2])]

\* sqsClient.SendMessage for each message, in order.
Enqueue(q, msgs) == q \o [i \in 1..Len(msgs) |-> QueueMessage(msgs[i])]

\* A handler that returns the first error of its records.
TriggerReturnFirstError(out) ==
    IF \E i \in 1..Len(out) : out[i].err # ""
    THEN out[CHOOSE i \in 1..Len(out) :
                /\ out[i].err # ""
                /\ \A j \in 1..(i - 1) : out[j].err = ""].err
    ELSE ""

\* The trigger handler's return value after its loop: `return nil`.
TriggerReturn(out) == ""

\* What the asynchronous invocation does with the S3 event when the handler
\* returns ret: the event is done with on nil, kept for a retry on an error.
AfterTriggerInvocation(ret, events) == IF ret = "" THEN Tail(events) ELSE events

\* A collaborator answers only the calls made: the answer of a call that
\* the processing of a record, with result r, did not make is left at its
\* default.  No metrics are emitted only for a record that is skipped.
OnlyCallsMade(r, e) ==
    /\ ~r.head => e.headOK
    /\ (r.msgs = NoSend /\ r.err # "failed to send SQS message") => e.sendOK
    /\ (r.metric = "none" /\ r.err = "") => e.metrics = "nil"

\* The answers the collaborators may give while a record is processed.
Answers(record) ==
    {e \in TriggerEnv : OnlyCallsMade(processRecord(record, e, 0), e)}

\* One invocation of the trigger lambda on the next S3 event.
TriggerHandler ==
    /\ s3events # <<>>
    /\ LET records == Head(s3events)
           answers == [i \in 1..Len(records) |-> Answers(records[i])]
       IN  \E env \in [1..Len(records) -> TriggerEnv] :
             LET out == TriggerLoop(records, env, clock, 1,
                                    [i \in 1..Len(records) |-> Unprocessed])
                 ret == TriggerReturn(out)
             IN  /\ \A i \in 1..Len(records) : env[i] \in answers[i]
                 /\ queue' = Enqueue(queue, Sent(out, 1))
                 /\ trigLog' = [records |-> records, env |-> env, out |-> out,
                                at |-> clock, base |-> Len(queue), ret |-> ret]
                 /\ s3events' = AfterTriggerInvocation(ret, s3events)
    /\ UNCHANGED <<scan, wk, parser, store, lastPut, built, clock>>

-----------------------------------------------------------------------------
(* internal/models: LogEntry, LogAggregation; internal/processor: the      *)
(* parser.  A log file is the sequence of lines bufio.Scanner yields; a    *)
(* pseudo-line of kind "toolong" (a line over the 1 MiB token limit) or    *)
(* "readerror" (the reader fails) is where the scanner stops with an error.*)

EmptyLine == [kind |-> "empty"]
BlankLine == [kind |-> "blank"]
TooLongLine == [kind |-> "toolong"]
ReadErrorLine == [kind |-> "readerror"]

LogStringFields == {"timestamp", "level", "endpoint", "user_id", "message"}
LogIntFields == {"response_time_ms", "status_code"}

\* json.Unmarshal(line, &entry): text that is not a JSON object (blank
\* included) and a member of the wrong type are errors.
UnmarshalLogEntry(line) ==
    IF line.kind # "object" THEN [ok |-> FALSE]
    ELSE IF ~(/\ \A f \in LogStringFields : MemberTypeOK(line, f, "string")
              /\ \A f \in LogIntFields : MemberTypeOK(line, f, "number"))
    THEN [ok |-> FALSE]
    ELSE [ok |-> TRUE,
          entry |-> [Timestamp      |-> Member(line, "timestamp", ""),
                     Level          |-> Member(line, "level", ""),
                     Endpoint       |-> Member(line, "endpoint", ""),
                     ResponseTimeMs |-> Member(line, "response_time_ms", 0),
                     StatusCode     |-> Member(line, "status_code", 0),
                     UserID         |-> Member(line, "user_id", ""),
                     Message        |-> Member(line, "message", "")]]

NewLogAggregation ==
    [TotalLines |-> 0, ProcessedLines |-> 0, ErrorCount |-> 0, WarnCount |-> 0,
     InfoCount |-> 0, DebugCount |-> 0, TotalResponseMs |-> 0, MaxResponseMs |-> 0,
     UniqueUsers |-> {}, UniqueEndpoints |-> {}, StatusCodeCounts |-> <<>>]

\* StatusCodeCounts[code]++ on a Go map: an absent key counts from 0.
IncrCount(counts, code) ==
    (code :> (IF code \in DOMAIN counts THEN counts[code] + 1 ELSE 1)) @@ counts

\* A processEntry that keeps the last response time as the maximum.
processEntryLastResponse(a, entry) ==
    [a EXCEPT
       !.ErrorCount = IF entry.Level = "ERROR" THEN @ + 1 ELSE @,
       !.WarnCount  = IF entry.Level = "WARN" THEN @ + 1 ELSE @,
       !.InfoCount  = IF entry.Level = "INFO" THEN @ + 1 ELSE @,
       !.DebugCount = IF entry.Level = "DEBUG" THEN @ + 1 ELSE @,
       !.TotalResponseMs = @ + entry.ResponseTimeMs,
       !.MaxResponseMs = entry.ResponseTimeMs,
       !.UniqueUsers = IF entry.UserID # "" THEN @ \cup {entry.UserID} ELSE @,
       !.UniqueEndpoints = IF entry.Endpoint # "" THEN @ \cup {entry.Endpoint} ELSE @,
       !.StatusCodeCounts = IF entry.StatusCode > 0 THEN IncrCount(@, entry.StatusCode)
                            ELSE @]

\* A processEntry that adds the user and the endpoint without testing them.
processEntryAddingEmpty(a, entry) ==
    [a EXCEPT
       !.ErrorCount = IF entry.Level = "ERROR" THEN @ + 1 ELSE @,
       !.WarnCount  = IF entry.Level = "WARN" THEN @ + 1 ELSE @,
       !.InfoCount  = IF entry.Level = "INFO" THEN @ + 1 ELSE @,
       !.DebugCount = IF entry.Level = "DEBUG" THEN @ + 1 ELSE @,
       !.TotalResponseMs = @ + entry.ResponseTimeMs,
       !.MaxResponseMs = IF entry.ResponseTimeMs > @ THEN entry.ResponseTimeMs ELSE @,
       !.UniqueUsers = @ \cup {entry.UserID},
       !.UniqueEndpoints = @ \cup {entry.Endpoint},
       !.StatusCodeCounts = IF entry.StatusCode > 0 THEN IncrCount(@, entry.StatusCode)
                            ELSE @]

\* A processEntry whose switch has a default case counting INFO.
processEntryDefaultInfo(a, entry) ==
    [a EXCEPT
       !.ErrorCount = IF entry.Level = "ERROR" THEN @ + 1 ELSE @,
       !.WarnCount  = IF entry.Level = "WARN" THEN @ + 1 ELSE @,
       !.InfoCount  = IF entry.Level \notin {"ERROR", "WARN", "DEBUG"} THEN @ + 1 ELSE @,
       !.DebugCount = IF entry.Level = "DEBUG" THEN @ + 1 ELSE @,
       !.TotalResponseMs = @ + entry.ResponseTimeMs,
       !.MaxResponseMs = IF entry.ResponseTimeMs > @ THEN entry.ResponseTimeMs ELSE @,
       !.UniqueUsers = IF entry.UserID # "" THEN @ \cup {entry.UserID} ELSE @,
       !.UniqueEndpoints = IF entry.Endpoint # "" THEN @ \cup {entry.Endpoint} ELSE @,
       !.StatusCodeCounts = IF entry.StatusCode > 0 THEN IncrCount(@, entry.StatusCode)
                            ELSE @]

processEntry(a, entry) ==
    [a EXCEPT
       !.ErrorCount = IF entry.Level = "ERROR" THEN @ + 1 ELSE @,
       !.WarnCount  = IF entry.Level = "WARN" THEN @ + 1 ELSE @,
       !.InfoCount  = IF entry.Level = "INFO" THEN @ + 1 ELSE @,
       !.DebugCount = IF entry.Level = "DEBUG" THEN @ + 1 ELSE @,
       !.TotalResponseMs = @ + entry.ResponseTimeMs,
       !.MaxResponseMs = IF entry.ResponseTimeMs > @ THEN entry.ResponseTimeMs ELSE @,
       !.UniqueUsers = IF entry.UserID # "" THEN @ \cup {entry.UserID} ELSE @,
       !.UniqueEndpoints = IF entry.Endpoint # "" THEN @ \cup {entry.Endpoint} ELSE @,
       !.StatusCodeCounts = IF entry.StatusCode > 0 THEN IncrCount(@, entry.StatusCode)
                            ELSE @]

\* A scan loop that drops an undecodable line without counting it.
IngestLineDropping(a, line) ==
    IF line.kind = "empty" THEN a
    ELSE LET d == UnmarshalLogEntry(line)
         IN  IF ~d.ok THEN a
             ELSE [processEntry(a, d.entry) EXCEPT !.ProcessedLines = @ + 1]

\* A scan loop that counts an undecodable line as processed too.
IngestLineFailureProcessed(a, line) ==
    IF line.kind = "empty" THEN a
    ELSE LET d == UnmarshalLogEntry(line)
         IN  IF ~d.ok THEN [a EXCEPT !.WarnCount = @ + 1, !.ProcessedLines = @ + 1]
             ELSE [processEntry(a, d.entry) EXCEPT !.ProcessedLines = @ + 1]

\* A scan loop that trims the line before testing it for emptiness.
IngestLineTrimming(a, line) ==
    IF line.kind \in {"empty", "blank"} THEN a
    ELSE LET d == UnmarshalLogEntry(line)
         IN  IF ~d.ok THEN [a EXCEPT !.WarnCount = @ + 1]
             ELSE [processEntry(a, d.entry) EXCEPT !.ProcessedLines = @ + 1]

\* The body of Parse's scan loop for one line the scanner yielded.
IngestLine(a, line) ==
    IF line.kind = "empty" THEN a
    ELSE LET d == UnmarshalLogEntry(line)
         IN  IF ~d.ok THEN [a EXCEPT !.WarnCount = @ + 1]
             ELSE [processEntry(a, d.entry) EXCEPT !.ProcessedLines = @ + 1]

\* for scanner.Scan() { lineNum++ ... }: stops at the end of the lines, or
\* at the line the scanner cannot deliver.
RECURSIVE ScanLoop(_, _, _, _)
ScanLoop(a, lines, i, lineNum) ==
    IF i > Len(lines) THEN [agg |-> a, lineNum |-> lineNum, err |-> ""]
    ELSE IF lines[i].kind \in {"toolong", "readerror"}
    THEN [agg |-> a, lineNum |-> lineNum, err |-> "error scanning file"]
    ELSE ScanLoop(IngestLine(a, lines[i]), lines, i + 1, lineNum + 1)

\* LogParser.Parse on a parser whose aggregation is a: `state` is the
\* parser's aggregation afterwards, `ok` is err == nil and then `state` is
\* also the aggregation returned.
Parse(a, lines) ==
    LET r == ScanLoop(a, lines, 1, 0)
    IN  IF r.err # "" THEN [ok |-> FALSE, err |-> r.err, state |-> r.agg]
        ELSE [ok |-> TRUE, err |-> "",
              state |-> [r.agg EXCEPT !.TotalLines = r.lineNum]]

\* A float64 quotient, kept exact as numerator and denominator.
Ratio(n, d) == [num |-> n, den |-> d]
ZeroFloat == Ratio(0, 1)

\* An average over all the lines of the file.
GetAverageOverTotalLines(a) ==
    IF a.TotalLines = 0 THEN ZeroFloat
    ELSE Ratio(a.TotalResponseMs, a.TotalLines)

GetAverageResponseTime(a) ==
    IF a.ProcessedLines = 0 THEN ZeroFloat
    ELSE Ratio(a.TotalResponseMs, a.ProcessedLines)

-----------------------------------------------------------------------------
(* Log files of the bucket.                                                *)

LineInfo10 ==
    JObject([timestamp |-> JStr("t1"), level |-> JStr("INFO"), endpoint |-> JStr("/a"),
             response_time_ms |-> JNum(10), status_code |-> JNum(200),
             user_id |-> JStr("u1")])
LineError500 ==
    JObject([timestamp |-> JStr("t2"), level |-> JStr("ERROR"), endpoint |-> JStr("/b"),
             response_time_ms |-> JNum(500), status_code |-> JNum(500),
             user_id |-> JStr("u1")])

\* An INFO record, an ERROR record, and the line `not-json`.
FileE2E == <<LineInfo10, LineError500, NotJson>>
\* A record followed by a line over the scanner's limit.
FileTooLong == <<LineInfo10, TooLongLine>>

\* A single ERROR record.
FileSecond == <<LineError500>>

\* The content GetObject streams for a key.
ObjectBody(key) ==
    IF key = KeyUpper THEN FileTooLong
    ELSE IF key = KeySecond THEN FileSecond
    ELSE FileE2E

-----------------------------------------------------------------------------
(* LogParser.Parse on its own, one iteration of its scan loop at a time.    *)
(* scan.pc is "loop" inside `for scanner.Scan()`, "done" after             *)
(* `return p.aggregation, nil`, "failed" after `return nil, err`.  before  *)
(* is the aggregation as it was when the last iteration began.             *)

\* A WARN record without endpoint and status_code.
LineWarn20 ==
    JObject([timestamp |-> JStr("t3"), level |-> JStr("WARN"),
             response_time_ms |-> JNum(20), user_id |-> JStr("u2")])
\* A DEBUG record with an empty user_id and response time 0.
LineDebug0 ==
    JObject([timestamp |-> JStr("t4"), level |-> JStr("DEBUG"), endpoint |-> JStr("/a"),
             response_time_ms |-> JNum(0), status_code |-> JNum(200),
             user_id |-> JStr("")])
\* A record of a level the parser has no counter for.
LineTrace500 ==
    JObject([timestamp |-> JStr("t5"), level |-> JStr("TRACE"), endpoint |-> JStr("/c"),
             response_time_ms |-> JNum(500), status_code |-> JNum(500),
             user_id |-> JStr("u1")])
\* An object whose response_time_ms is a JSON string.
LineBadType ==
    JObject([timestamp |-> JStr("t6"), level |-> JStr("INFO"),
             response_time_ms |-> JStr("fast"), user_id |-> JStr("u3")])

\* A record whose response_time_ms is negative.
LineNegative ==
    JObject([timestamp |-> JStr("t7"), level |-> JStr("INFO"), endpoint |-> JStr("/b"),
             response_time_ms |-> JNum(-5), user_id |-> JStr("u2")])

\* The lines a file is made of.
LogLines ==
    {EmptyLine, BlankLine, NotJson, LineBadType, LineInfo10, LineError500,
     LineWarn20, LineDebug0, LineTrace500, LineNegative, TooLongLine}

LogFiles(maxLen) == UNION {[1..n -> LogLines] : n \in 0..maxLen}

NoScan ==
    [pc |-> "off", lines |-> <<>>, i |-> 1, lineNum |-> 0,
     agg |-> NewLogAggregation, before |-> NewLogAggregation]

\* NewLogParser() and the entry of Parse on a reader of `lines`.
StartScan(lines) == [NoScan EXCEPT !.pc = "loop", !.lines = lines]

\* An empty line counted like the lines that are not.
LineNumAfterSkippingEmpty(lineNum, line) ==
    IF line.kind = "empty" THEN lineNum ELSE lineNum + 1

\* lineNum++ at the top of the loop body.
LineNumAfter(lineNum, line) == lineNum + 1

\* A scan loop that gives up at the first line it cannot decode.
AfterLineBreakOnError(i, n, line) ==
    IF line.kind # "empty" /\ ~UnmarshalLogEntry(line).ok THEN n + 1 ELSE i + 1

\* Where the loop goes after a line: `continue` or the end of the body,
\* the next line in both cases.
AfterLine(i, n, line) == i + 1

\* One iteration of `for scanner.Scan()`.
ScanLine ==
    /\ scan.pc = "loop"
    /\ scan.i <= Len(scan.lines)
    /\ scan.lines[scan.i].kind \notin {"toolong", "readerror"}
    /\ scan' = [scan EXCEPT
                  !.before = scan.agg,
                  !.agg = IngestLine(scan.agg, scan.lines[scan.i]),
                  !.lineNum = LineNumAfter(scan.lineNum, scan.lines[scan.i]),
                  !.i = AfterLine(scan.i, Len(scan.lines), scan.lines[scan.i])]
    /\ UNCHANGED pipelineVars

\* scanner.Scan() returns false with scanner.Err() set: return nil, err.
ScanFail ==
    /\ scan.pc = "loop"
    /\ scan.i <= Len(scan.lines)
    /\ scan.lines[scan.i].kind \in {"toolong", "readerror"}
    /\ scan' = [scan EXCEPT !.pc = "failed"]
    /\ UNCHANGED pipelineVars

\* scanner.Scan() returns false at the end of the input:
\* p.aggregation.TotalLines = lineNum; return p.aggregation, nil.
ParseReturn ==
    /\ scan.pc = "loop"
    /\ scan.i > Len(scan.lines)
    /\ scan' = [scan EXCEPT !.pc = "done",
                            !.agg = [scan.agg EXCEPT !.TotalLines = scan.lineNum]]
    /\ UNCHANGED pipelineVars

-----------------------------------------------------------------------------
(* models.ProcessingResult and the results table.                          *)

Millis(seconds) == seconds * 1000

ZeroResult ==
    [JobID |-> "", Status |-> "", LineCount |-> 0, ErrorCount |-> 0, WarnCount |-> 0,
     InfoCount |-> 0, AvgResponseTimeMs |-> ZeroFloat, MaxResponseTimeMs |-> 0,
     UniqueUsers |-> 0, UniqueEndpoints |-> 0, ProcessingTimeMs |-> 0,
     FileSizeBytes |-> 0, StartedAt |-> 0, CompletedAt |-> 0, ErrorMessage |-> "",
     ExpiresAt |-> 0]

\* processMessage's "Build result": tSince, tDone, tExp are the three reads
\* of the clock (time.Since, CompletedAt, ExpiresAt), a the aggregation
\* Parse returned, p the parser's aggregation.
CompletedResult(job, startTime, a, p, tSince, tDone, tExp) ==
    [JobID             |-> job.JobID,
     Status            |-> "completed",
     LineCount         |-> a.TotalLines,
     ErrorCount        |-> a.ErrorCount,
     WarnCount         |-> a.WarnCount,
     InfoCount         |-> a.InfoCount,
     AvgResponseTimeMs |-> GetAverageResponseTime(p),
     MaxResponseTimeMs |-> a.MaxResponseMs,
     UniqueUsers       |-> Cardinality(a.UniqueUsers),
     UniqueEndpoints   |-> Cardinality(a.UniqueEndpoints),
     ProcessingTimeMs  |-> Millis(tSince - startTime),
     FileSizeBytes     |-> job.Size,
     StartedAt         |-> startTime,
     CompletedAt       |-> tDone,
     ErrorMessage      |-> "",
     ExpiresAt         |-> tExp + RetentionSeconds]

\* A saveFailedResult that forgets the error message.
FailedResultNoMessage(job, startTime, processErr, tSince, tDone, tExp) ==
    [ZeroResult EXCEPT
       !.JobID = job.JobID,
       !.Status = "failed",
       !.ProcessingTimeMs = Millis(tSince - startTime),
       !.FileSizeBytes = job.Size,
       !.StartedAt = startTime,
       !.CompletedAt = tDone,
       !.ExpiresAt = tExp + RetentionSeconds]

\* saveFailedResult's Result.
FailedResult(job, startTime, processErr, tSince, tDone, tExp) ==
    [ZeroResult EXCEPT
       !.JobID = job.JobID,
       !.Status = "failed",
       !.ProcessingTimeMs = Millis(tSince - startTime),
       !.FileSizeBytes = job.Size,
       !.StartedAt = startTime,
       !.CompletedAt = tDone,
       !.ErrorMessage = processErr,
       !.ExpiresAt = tExp + RetentionSeconds]

\* The struct's fields under their dynamodbav tags.
ResultAttributes(r) ==
    [job_id               |-> r.JobID,
     status               |-> r.Status,
     line_count           |-> r.LineCount,
     error_count          |-> r.ErrorCount,
     warn_count           |-> r.WarnCount,
     info_count           |-> r.InfoCount,
     avg_response_time_ms |-> r.AvgResponseTimeMs,
     max_response_time_ms |-> r.MaxResponseTimeMs,
     unique_users         |-> r.UniqueUsers,
     unique_endpoints     |-> r.UniqueEndpoints,
     processing_time_ms   |-> r.ProcessingTimeMs,
     file_size_bytes      |-> r.FileSizeBytes,
     started_at           |-> r.StartedAt,
     completed_at         |-> r.CompletedAt,
     error_message        |-> r.ErrorMessage,
     expires_at           |-> r.ExpiresAt]

\* The attributes tagged omitempty.
OmitEmpty ==
    {"line_count", "error_count", "warn_count", "info_count", "avg_response_time_ms",
     "max_response_time_ms", "unique_users", "unique_endpoints", "error_message"}

IsEmptyValue(attr, v) ==
    IF attr = "error_message" THEN v = ""
    ELSE IF attr = "avg_response_time_ms" THEN v.num = 0
    ELSE v = 0

\* attributevalue.MarshalMap(result): an omitempty attribute with the zero
\* value is left out of the item.
MarshalMap(r) ==
    LET all == ResultAttributes(r)
        kept == {a \in DOMAIN all : ~(a \in OmitEmpty /\ IsEmptyValue(a, all[a]))}
    IN  [a \in kept |-> all[a]]

\* An UpdateItem-like write: attributes the new item lacks stay as they were.
PutItemMerging(items, item) ==
    {x \in items : x["job_id"] # item["job_id"]}
        \cup {item @@ x : x \in {y \in items : y["job_id"] = item["job_id"]}}
        \cup (IF \E y \in items : y["job_id"] = item["job_id"] THEN {} ELSE {item})

\* A conditional write that leaves a completed item alone.
PutItemUnlessCompleted(items, item) ==
    IF \E x \in items : x["job_id"] = item["job_id"] /\ x["status"] = "completed"
    THEN items
    ELSE {x \in items : x["job_id"] # item["job_id"]} \cup {item}

\* A conditional write that keeps the item with the later completed_at.
PutItemLatestCompletedAt(items, item) ==
    IF \E x \in items : /\ x["job_id"] = item["job_id"]
                        /\ x["completed_at"] > item["completed_at"]
    THEN items
    ELSE {x \in items : x["job_id"] # item["job_id"]} \cup {item}

\* ddbClient.PutItem on a table whose hash key is job_id: the item replaces
\* any item with the same key, whole.
PutItem(items, item) ==
    {x \in items : x["job_id"] # item["job_id"]} \cup {item}

\* The table's hash key job_id is a string attribute: PutItem rejects an
\* item whose key attribute is the empty string.
KeyAttributeValid(item) == item["job_id"] # ""

\* The record of successful writes: per job_id the item last written and
\* how many writes succeeded.
Written(puts, item) ==
    LET id == item["job_id"]
        n == IF id \in DOMAIN puts THEN puts[id].n ELSE 0
    IN  (id :> [item |-> item, n |-> n + 1]) @@ puts

ItemsOf(items, jobID) == {x \in items : x["job_id"] = jobID}

\* The statistics of a Result: all but processing_time_ms and the timestamps.
Statistics(r) ==
    [status |-> r.Status, line_count |-> r.LineCount, error_count |-> r.ErrorCount,
     warn_count |-> r.WarnCount, info_count |-> r.InfoCount,
     avg_response_time_ms |-> r.AvgResponseTimeMs,
     max_response_time_ms |-> r.MaxResponseTimeMs, unique_users |-> r.UniqueUsers,
     unique_endpoints |-> r.UniqueEndpoints, file_size_bytes |-> r.FileSizeBytes]

-----------------------------------------------------------------------------
(* The SQS processing queue with its redrive policy, and the Lambda event  *)
(* source mapping that hands batches of it to the worker.                  *)

Range(seq) == {seq[i] : i \in 1..Len(seq)}

\* A queue without the redrive policy's limit on receives.
DeliverableUnlimited ==
    {i \in 1..Len(queue) : queue[i].state = "visible" /\ queue[i].receiveCount < 5}

\* Messages a ReceiveMessage may return.
Deliverable ==
    {i \in 1..Len(queue) :
        queue[i].state = "visible" /\ queue[i].receiveCount < maxReceiveCount}

\* The batches of distinct deliverable messages, in any order.
WorkerBatches ==
    {b \in UNION {[1..n -> Deliverable] : n \in 1..MaxWorkerBatch} :
        \A i, j \in 1..Len(b) : i # j => b[i] # b[j]}

\* What the event source mapping does with a batch when the invocation
\* returns ret: delete it on nil, make it visible again on an error.
AfterInvocation(ret) == IF ret = "" THEN "deleted" ELSE "visible"

SetState(q, ids, st) ==
    [i \in 1..Len(q) |-> IF i \in ids THEN [q[i] EXCEPT !.state = st] ELSE q[i]]

\* Redrive policy: a message received maxReceiveCount times that is visible
\* again goes to the dead-letter queue instead of being received once more.
Redrive(i) ==
    /\ queue[i].state = "visible"
    /\ queue[i].receiveCount >= maxReceiveCount
    /\ queue' = SetState(queue, {i}, "dlq")
    /\ UNCHANGED <<scan, s3events, trigLog, wk, parser, store, lastPut, built, clock>>

\* Another sender puts a message on the queue whose body is not a Job.  The
\* inputs fed to the pipeline (notifications and such messages) number at
\* most MaxMsgs.
ForeignSend ==
    /\ Len(queue) + Len(s3events) < MaxMsgs
    /\ queue' = Enqueue(queue, <<[body |-> NotJson, attrJobID |-> ""]>>)
    /\ UNCHANGED <<scan, s3events, trigLog, wk, parser, store, lastPut, built, clock>>

-----------------------------------------------------------------------------
(* cmd/worker: the consumer.  wk[w] is one worker container: its position  *)
(* in handler/processMessage and the locals.  trail lists what the current *)
(* processMessage call has done so far.                                    *)

\* What a trail entry keeps of an item put: its key, status and error message.
NoItem == [job_id |-> "", status |-> "none", error_message |-> ""]

ItemSummary(r) ==
    [job_id |-> r.JobID, status |-> r.Status, error_message |-> r.ErrorMessage]

IdleWorker ==
    [pc |-> "idle", batch |-> <<>>, idx |-> 0, job |-> ZeroJob, startTime |-> 0,
     body |-> <<>>, processErr |-> "", result |-> ZeroResult, ret |-> "",
     trail |-> <<>>]

Event(ev, ok, item) == [ev |-> ev, ok |-> ok, item |-> item]

\* Three successive reads of the clock, which may advance between them.
ClockReads ==
    {r \in (clock..MaxClock) \X (clock..MaxClock) \X (clock..MaxClock) :
        r[1] <= r[2] /\ r[2] <= r[3]}

\* A parser kept in a package-level variable of the container and reused.
ReusedLogParser(w) == parser[w]

\* processor.NewLogParser(): a parser with a fresh aggregation.
NewLogParser(w) == NewLogAggregation

\* A processMessage that only logs a failed saveResult.
saveResultErrSwallowed(putOK) == ""

\* processMessage's return after saveResult: the PutItem error, wrapped.
saveResultErr(putOK) == IF putOK THEN "" ELSE "failed to save result"

\* saveFailedResult's return: the PutItem error is printed, processErr returned.
saveFailedResultErr(processErr, putOK) == processErr

CurrentMessage(w) == wk[w].batch[wk[w].idx]

\* A handler that, like the trigger's, logs a message's error and goes on,
\* returning nil at the end.
HandlerAfterContinuing(err, idx, n) ==
    [ret |-> "", idx |-> idx + 1, pc |-> IF idx < n THEN "next" ELSE "return"]

\* A handler that puts the error aside and goes on with the batch.
HandlerAfterDeferringError(err, idx, n) ==
    [ret |-> err, idx |-> idx + 1, pc |-> IF idx < n THEN "next" ELSE "return"]

\* The handler's loop after processMessage returned err for message idx of
\* n: the first error is returned at once, otherwise the next message is
\* taken, and nil is returned after the last.
HandlerAfter(err, idx, n) ==
    [ret |-> err,
     idx |-> IF err = "" THEN idx + 1 ELSE idx,
     pc  |-> IF err = "" /\ idx < n THEN "next" ELSE "return"]

\* The event source mapping receives a batch and invokes the handler.
Deliver(w) ==
    /\ wk[w].pc = "idle"
    /\ \E b \in WorkerBatches :
         /\ queue' = [i \in 1..Len(queue) |->
                        IF i \in Range(b)
                        THEN [queue[i] EXCEPT !.state = "inflight",
                                              !.receiveCount = @ + 1]
                        ELSE queue[i]]
         /\ wk' = [wk EXCEPT ![w] = [IdleWorker EXCEPT !.pc = "next", !.batch = b,
                                                       !.idx = 1]]
    /\ UNCHANGED <<scan, s3events, trigLog, parser, store, lastPut, built, clock>>

\* A processMessage that records a failed Result for a body it cannot decode.
ProcessMessageStartSavingFailure(w) ==
    /\ wk[w].pc = "next"
    /\ \E t \in clock..MaxClock :
         LET u == UnmarshalJob(queue[CurrentMessage(w)].body)
         IN  /\ clock' = t
             /\ wk' = [wk EXCEPT ![w] =
                  IF u.ok
                  THEN [@ EXCEPT !.pc = "fetch", !.job = u.job, !.startTime = t,
                                 !.body = <<>>, !.processErr = "",
                                 !.result = ZeroResult,
                                 !.trail = <<Event("unmarshal", TRUE, NoItem)>>]
                  ELSE [@ EXCEPT !.pc = "saveFailed", !.job = ZeroJob, !.startTime = t,
                                 !.body = <<>>, !.processErr = "failed to unmarshal job",
                                 !.result = FailedResult(ZeroJob, t,
                                               "failed to unmarshal job", t, t, t),
                                 !.trail = <<Event("unmarshal", FALSE, NoItem)>>]]
    /\ UNCHANGED <<scan, s3events, trigLog, queue, parser, store, lastPut, built>>

\* processMessage up to the fetch: startTime, json.Unmarshal of the body.
\* An undecodable body returns at once, and the handler returns that error.
ProcessMessageStart(w) ==
    /\ wk[w].pc = "next"
    /\ \E t \in clock..MaxClock :
         LET u == UnmarshalJob(queue[CurrentMessage(w)].body)
             h == HandlerAfter("failed to unmarshal job", wk[w].idx, Len(wk[w].batch))
         IN  /\ clock' = t
             /\ wk' = [wk EXCEPT ![w] =
                  IF u.ok
                  THEN [@ EXCEPT !.pc = "fetch", !.job = u.job, !.startTime = t,
                                 !.body = <<>>, !.processErr = "",
                                 !.result = ZeroResult,
                                 !.trail = <<Event("unmarshal", TRUE, NoItem)>>]
                  ELSE [@ EXCEPT !.pc = h.pc, !.idx = h.idx, !.ret = h.ret,
                                 !.job = ZeroJob, !.startTime = t,
                                 !.body = <<>>, !.processErr = "",
                                 !.result = ZeroResult,
                                 !.trail = <<Event("unmarshal", FALSE, NoItem),
                                             Event("return", FALSE, NoItem)>>]]
    /\ UNCHANGED <<scan, s3events, trigLog, queue, parser, store, lastPut, built>>

\* s3Client.GetObject; on an error saveFailedResult builds its Result.
GetObject(w) ==
    /\ wk[w].pc = "fetch"
    /\ \/ /\ wk' = [wk EXCEPT ![w] =
                 [@ EXCEPT !.pc = "parse", !.body = ObjectBody(wk[w].job.Key),
                           !.trail = Append(@, Event("get", TRUE, NoItem))]]
          /\ UNCHANGED clock
       \/ \E r \in ClockReads :
            /\ clock' = r[3]
            /\ wk' = [wk EXCEPT ![w] =
                 [@ EXCEPT !.pc = "saveFailed",
                           !.processErr = "failed to get S3 object",
                           !.result = FailedResult(wk[w].job, wk[w].startTime,
                                         "failed to get S3 object", r[1], r[2], r[3]),
                           !.trail = Append(@, Event("get", FALSE, NoItem))]]
    /\ UNCHANGED <<scan, s3events, trigLog, queue, parser, store, lastPut, built>>

\* The stream GetObject returns breaks after n of the object's lines: the
\* next read fails with an error that is not io.EOF.
ReadErrorAfter(body, n) == SubSeq(body, 1, n) \o <<ReadErrorLine>>

\* s3Client.GetObject succeeds and the body's stream breaks while Parse
\* reads it.
GetObjectReadError(w) ==
    /\ wk[w].pc = "fetch"
    /\ \E n \in 0..Len(ObjectBody(wk[w].job.Key)) :
         wk' = [wk EXCEPT ![w] =
                  [@ EXCEPT !.pc = "parse",
                            !.body = ReadErrorAfter(ObjectBody(wk[w].job.Key), n),
                            !.trail = Append(@, Event("get", TRUE, NoItem))]]
    /\ UNCHANGED <<scan, s3events, trigLog, queue, parser, store, lastPut, built, clock>>

\* A ParseLogs that saves a "processing" item while it aggregates.
ParseLogsWritingProgress(w) ==
    /\ wk[w].pc = "parse"
    /\ LET p == Parse(NewLogAggregation, wk[w].body)
           res == CompletedResult(wk[w].job, wk[w].startTime, p.state, p.state,
                                  clock, clock, clock)
           item == MarshalMap([res EXCEPT !.Status = "processing"])
       IN  /\ store' = PutItem(store, item)
           /\ lastPut' = Written(lastPut, item)
           /\ wk' = [wk EXCEPT ![w] =
                [@ EXCEPT !.pc = "save", !.result = res,
                          !.trail = Append(@, Event("parse", TRUE, NoItem))]]
    /\ UNCHANGED <<scan, s3events, trigLog, queue, parser, built, clock>>

\* A ParseLogs whose failed Result keeps what Parse had counted when the
\* stream broke.
ParseLogsKeepingPartial(w) ==
    /\ wk[w].pc = "parse"
    /\ \E r \in ClockReads :
         LET p == Parse(NewLogParser(w), wk[w].body)
             done == CompletedResult(wk[w].job, wk[w].startTime, p.state,
                                     p.state, r[1], r[2], r[3])
             res == IF p.ok THEN done
                    ELSE [done EXCEPT !.Status = "failed",
                                      !.ErrorMessage = "failed to parse logs"]
             m == CurrentMessage(w)
         IN  /\ clock' = r[3]
             /\ parser' = [parser EXCEPT ![w] = p.state]
             /\ wk' = [wk EXCEPT ![w] =
                  [@ EXCEPT !.pc = IF p.ok THEN "save" ELSE "saveFailed",
                            !.processErr = IF p.ok THEN "" ELSE "failed to parse logs",
                            !.result = res,
                            !.trail = Append(@, Event("parse", p.ok, NoItem))]]
             /\ built' = (m :> Append(IF m \in DOMAIN built THEN built[m] ELSE <<>>,
                                      Statistics(res))) @@ built
    /\ UNCHANGED <<scan, s3events, trigLog, queue, store, lastPut>>

\* NewLogParser, Parse, and then either the completed Result or
\* saveFailedResult's Result.
ParseLogs(w) ==
    /\ wk[w].pc = "parse"
    /\ \E r \in ClockReads :
         LET p == Parse(NewLogParser(w), wk[w].body)
             res == IF p.ok
                    THEN CompletedResult(wk[w].job, wk[w].startTime, p.state,
                                         p.state, r[1], r[2], r[3])
                    ELSE FailedResult(wk[w].job, wk[w].startTime,
                                      "failed to parse logs", r[1], r[2], r[3])
             m == CurrentMessage(w)
         IN  /\ clock' = r[3]
             /\ parser' = [parser EXCEPT ![w] = p.state]
             /\ wk' = [wk EXCEPT ![w] =
                  [@ EXCEPT !.pc = IF p.ok THEN "save" ELSE "saveFailed",
                            !.processErr = IF p.ok THEN "" ELSE "failed to parse logs",
                            !.result = res,
                            !.trail = Append(@, Event("parse", p.ok, NoItem))]]
             /\ built' = (m :> Append(IF m \in DOMAIN built THEN built[m] ELSE <<>>,
                                      Statistics(res))) @@ built
    /\ UNCHANGED <<scan, s3events, trigLog, queue, store, lastPut>>

\* saveResult of the completed Result, and the rest of processMessage: the
\* metrics are emitted only after a save that succeeded.  After a nil return
\* the handler's loop goes on to the next message of the batch.
SaveCompleted(w) ==
    /\ wk[w].pc = "save"
    /\ \E putOK \in BOOLEAN, m \in MetricsOutcomes :
         LET item == MarshalMap(wk[w].result)
             saved == saveResultErr(putOK)
             err == IF saved = "" THEN AfterEmit(saved, m) ELSE saved
             h == HandlerAfter(err, wk[w].idx, Len(wk[w].batch))
             emitted == IF saved = "" THEN EmitBatch(m) ELSE "none"
         IN  /\ saved # "" => m = "nil"
             /\ putOK => KeyAttributeValid(item)
             /\ store' = IF putOK THEN PutItem(store, item) ELSE store
             /\ lastPut' = IF putOK THEN Written(lastPut, item) ELSE lastPut
             /\ wk' = [wk EXCEPT ![w] =
                  [@ EXCEPT !.trail = @ \o <<Event("put", putOK,
                                                   ItemSummary(wk[w].result)),
                                             Event(emitted, TRUE, NoItem),
                                             Event("return", err = "", NoItem)>>,
                            !.ret = h.ret, !.idx = h.idx, !.pc = h.pc]]
    /\ UNCHANGED <<scan, s3events, trigLog, queue, parser, built, clock>>

\* saveFailedResult from its saveResult call on: the write, the emission of
\* WorkerFailureCount, the return of processErr.
SaveFailed(w) ==
    /\ wk[w].pc = "saveFailed"
    /\ \E putOK \in BOOLEAN, m \in MetricsOutcomes :
         LET item == MarshalMap(wk[w].result)
             err == AfterEmit(saveFailedResultErr(wk[w].processErr, putOK), m)
             h == HandlerAfter(err, wk[w].idx, Len(wk[w].batch))
         IN  /\ putOK => KeyAttributeValid(item)
             /\ store' = IF putOK THEN PutItem(store, item) ELSE store
             /\ lastPut' = IF putOK THEN Written(lastPut, item) ELSE lastPut
             /\ wk' = [wk EXCEPT ![w] =
                  [@ EXCEPT !.trail = @ \o <<Event("put", putOK,
                                                   ItemSummary(wk[w].result)),
                                             Event(EmitBatch(m), TRUE, NoItem),
                                             Event("return", err = "", NoItem)>>,
                            !.ret = h.ret, !.idx = h.idx, !.pc = h.pc]]
    /\ UNCHANGED <<scan, s3events, trigLog, queue, parser, built, clock>>

\* An event source mapping with partial batch responses: on an error the
\* messages the handler had finished are deleted, the others released.
HandlerReturnPartial(w) ==
    /\ wk[w].pc = "return"
    /\ queue' = SetState(SetState(queue, Range(wk[w].batch), "visible"),
                         {wk[w].batch[k] : k \in 1..(wk[w].idx - 1)}, "deleted")
    /\ wk' = [wk EXCEPT ![w] = IdleWorker]
    /\ UNCHANGED <<scan, s3events, trigLog, parser, store, lastPut, built, clock>>

\* The handler returns; the event source mapping deletes or releases the batch.
HandlerReturn(w) ==
    /\ wk[w].pc = "return"
    /\ queue' = SetState(queue, Range(wk[w].batch), AfterInvocation(wk[w].ret))
    /\ wk' = [wk EXCEPT ![w] = IdleWorker]
    /\ UNCHANGED <<scan, s3events, trigLog, parser, store, lastPut, built, clock>>

\* Whether the processMessage call in progress has not reached its PutItem.
BeforeWrite(w) == \A i \in 1..Len(wk[w].trail) : wk[w].trail[i].ev # "put"

\* An abort that flushes the Result built so far to the table.
AbortFlushingResult(w) ==
    /\ wk[w].pc # "idle"
    /\ queue' = SetState(queue, Range(wk[w].batch), "visible")
    /\ wk' = [wk EXCEPT ![w] =
                [IdleWorker EXCEPT !.trail = <<Event("abort", BeforeWrite(w), NoItem)>>]]
    /\ store' = PutItem(store, MarshalMap(wk[w].result))
    /\ lastPut' = Written(lastPut, MarshalMap(wk[w].result))
    /\ UNCHANGED <<scan, s3events, trigLog, parser, built, clock>>

\* The invocation ends without returning (deadline, crash): nothing is
\* acknowledged and the batch becomes visible again.  The container's trail
\* keeps that it was aborted, and whether before the call's PutItem.
Abort(w) ==
    /\ wk[w].pc # "idle"
    /\ queue' = SetState(queue, Range(wk[w].batch), "visible")
    /\ wk' = [wk EXCEPT ![w] =
                [IdleWorker EXCEPT !.trail = <<Event("abort", BeforeWrite(w), NoItem)>>]]
    /\ UNCHANGED <<scan, s3events, trigLog, parser, store, lastPut, built, clock>>

-----------------------------------------------------------------------------
(* The pipeline.                                                           *)

NoTrigLog ==
    [records |-> <<>>, env |-> <<>>, out |-> <<>>, at |-> 0, base |-> 0, ret |-> ""]

\* The S3 events the bucket notification may raise: batches of
\* notifications for keys of the bucket.
ArrivalBatches(maxLen) ==
    UNION {[1..n -> {Notification(k) : k \in Keys}] : n \in 1..maxLen}

Idle ==
    /\ trigLog = NoTrigLog
    /\ queue = <<>>
    /\ wk = [w \in {"w1"} |-> IdleWorker]
    /\ parser = [w \in {"w1"} |-> NewLogAggregation]
    /\ store = {}
    /\ lastPut = <<>>
    /\ built = <<>>
    /\ clock = 0

\* The pipeline with at most one S3 event, of one notification, pending.
Init ==
    /\ s3events \in {<<>>} \cup {<<b>> : b \in ArrivalBatches(1)}
    /\ Idle
    /\ scan = NoScan

\* The trigger lambda alone, with one S3 event of up to MaxTrigBatch
\* notifications pending.
InitValidator ==
    /\ s3events \in {<<b>> : b \in ArrivalBatches(MaxTrigBatch)}
    /\ Idle
    /\ scan = NoScan

Next ==
    \/ TriggerHandler
    \/ ForeignSend
    \/ \E i \in 1..Len(queue) : Redrive(i)
    \/ \E w \in DOMAIN wk : Deliver(w)
    \/ \E w \in DOMAIN wk : ProcessMessageStart(w)
    \/ \E w \in DOMAIN wk : GetObject(w)
    \/ \E w \in DOMAIN wk : ParseLogs(w)
    \/ \E w \in DOMAIN wk : SaveCompleted(w)
    \/ \E w \in DOMAIN wk : SaveFailed(w)
    \/ \E w \in DOMAIN wk : HandlerReturn(w)
    \/ \E w \in DOMAIN wk : Abort(w)

Spec == Init /\ [][Next]_vars

NextValidator == TriggerHandler

SpecValidator == InitValidator /\ [][NextValidator]_vars

\* Some worker is at position pc of handler/processMessage: the guard of the
\* step taken from there, which has no other condition.
At(pc) == \E w \in DOMAIN wk : wk[w].pc = pc

\* Some worker is idle and the queue has a message to deliver: the guard of
\* Deliver.
CanDeliver == At("idle") /\ Deliverable # {}

\* Each guard above is the enabledness of its action.
GuardsAreEnabledness ==
    /\ CanDeliver <=> ENABLED <<\E w \in DOMAIN wk : Deliver(w)>>_vars
    /\ At("next") <=> ENABLED <<\E w \in DOMAIN wk : ProcessMessageStart(w)>>_vars
    /\ At("fetch") <=> ENABLED <<\E w \in DOMAIN wk : GetObject(w)>>_vars
    /\ At("parse") <=> ENABLED <<\E w \in DOMAIN wk : ParseLogs(w)>>_vars
    /\ At("save") <=> ENABLED <<\E w \in DOMAIN wk : SaveCompleted(w)>>_vars
    /\ At("saveFailed") <=> ENABLED <<\E w \in DOMAIN wk : SaveFailed(w)>>_vars
    /\ At("return") <=> ENABLED <<\E w \in DOMAIN wk : HandlerReturn(w)>>_vars

\* The pipeline under fair delivery: the event source mapping keeps polling,
\* an invocation that is not cut short runs to its return, and the redrive
\* policy is applied.  Weak fairness of each step, WF_vars(A), is written
\* out as []<>~ENABLED <<A>>_vars \/ []<><<A>>_vars with the step's guard for
\* its enabledness (GuardsAreEnabledness).
Fairness ==
    /\ WF_vars(\E i \in 1..Len(queue) : Redrive(i))
    /\ []<>(~CanDeliver) \/ []<><<\E w \in DOMAIN wk : Deliver(w)>>_vars
    /\ []<>(~At("next")) \/ []<><<\E w \in DOMAIN wk : ProcessMessageStart(w)>>_vars
    /\ []<>(~At("fetch")) \/ []<><<\E w \in DOMAIN wk : GetObject(w)>>_vars
    /\ []<>(~At("parse")) \/ []<><<\E w \in DOMAIN wk : ParseLogs(w)>>_vars
    /\ []<>(~At("save")) \/ []<><<\E w \in DOMAIN wk : SaveCompleted(w)>>_vars
    /\ []<>(~At("saveFailed")) \/ []<><<\E w \in DOMAIN wk : SaveFailed(w)>>_vars
    /\ []<>(~At("return")) \/ []<><<\E w \in DOMAIN wk : HandlerReturn(w)>>_vars

SpecFair == Spec /\ Fairness

\* The message the trigger queues for an object, all its calls succeeding.
MessagesFor(key) ==
    processRecord(Notification(key),
                  [headOK |-> TRUE, sendOK |-> TRUE, metrics |-> "nil"], 0).msgs

\* The queue after the messages were received n times by invocations that
\* were aborted before they did anything.
AfterAbortedReceives(q, n) == [i \in 1..Len(q) |-> [q[i] EXCEPT !.receiveCount = n]]

\* Two worker containers and a queue holding the messages of two objects of
\* the same test, hence of the same job_id, each on its last receive: the
\* event source mapping invokes the worker concurrently.
InitConcurrent ==
    /\ s3events = <<>>
    /\ trigLog = NoTrigLog
    /\ queue = AfterAbortedReceives(
                   Enqueue(<<>>, MessagesFor(KeyGood) \o MessagesFor(KeySecond)),
                   maxReceiveCount - 1)
    /\ wk = [w \in {"w1", "w2"} |-> IdleWorker]
    /\ parser = [w \in {"w1", "w2"} |-> NewLogAggregation]
    /\ store = {}
    /\ lastPut = <<>>
    /\ built = <<>>
    /\ clock = 0
    /\ scan = NoScan

NextConcurrent ==
    \/ \E i \in 1..Len(queue) : Redrive(i)
    \/ \E w \in DOMAIN wk : Deliver(w)
    \/ \E w \in DOMAIN wk : ProcessMessageStart(w)
    \/ \E w \in DOMAIN wk : GetObject(w)
    \/ \E w \in DOMAIN wk : ParseLogs(w)
    \/ \E w \in DOMAIN wk : SaveCompleted(w)
    \/ \E w \in DOMAIN wk : SaveFailed(w)
    \/ \E w \in DOMAIN wk : HandlerReturn(w)
    \/ \E w \in DOMAIN wk : Abort(w)

SpecConcurrent == InitConcurrent /\ [][NextConcurrent]_vars

\* One worker container and a queue holding the message of an object and,
\* behind it, either a message whose body is not a Job or the message of a
\* second object.
InitBatch ==
    /\ s3events = <<>>
    /\ trigLog = NoTrigLog
    /\ queue \in {Enqueue(<<>>, MessagesFor(KeyGood) \o second) :
                     second \in {<<[body |-> NotJson, attrJobID |-> ""]>>,
                                 MessagesFor(KeySecond)}}
    /\ wk = [w \in {"w1"} |-> IdleWorker]
    /\ parser = [w \in {"w1"} |-> NewLogAggregation]
    /\ store = {}
    /\ lastPut = <<>>
    /\ built = <<>>
    /\ clock = 0
    /\ scan = NoScan

SpecBatch == InitBatch /\ [][NextConcurrent]_vars

\* The same, every invocation running to its return: no deadline fires and
\* no container crashes.
NextReturning ==
    \/ \E i \in 1..Len(queue) : Redrive(i)
    \/ \E w \in DOMAIN wk : Deliver(w)
    \/ \E w \in DOMAIN wk : ProcessMessageStart(w)
    \/ \E w \in DOMAIN wk : GetObject(w)
    \/ \E w \in DOMAIN wk : ParseLogs(w)
    \/ \E w \in DOMAIN wk : SaveCompleted(w)
    \/ \E w \in DOMAIN wk : SaveFailed(w)
    \/ \E w \in DOMAIN wk : HandlerReturn(w)

SpecReturning == InitBatch /\ [][NextReturning]_vars

\* One worker container and the queued message of one object, whose file
\* reads to its end or holds a line over the scanner's limit; the stream of
\* a fetched body may break at any line.
InitStream ==
    /\ s3events = <<>>
    /\ trigLog = NoTrigLog
    /\ queue \in {Enqueue(<<>>, MessagesFor(k)) : k \in {KeyGood, KeyUpper}}
    /\ wk = [w \in {"w1"} |-> IdleWorker]
    /\ parser = [w \in {"w1"} |-> NewLogAggregation]
    /\ store = {}
    /\ lastPut = <<>>
    /\ built = <<>>
    /\ clock = 0
    /\ scan = NoScan

NextStream ==
    \/ \E i \in 1..Len(queue) : Redrive(i)
    \/ \E w \in DOMAIN wk : Deliver(w)
    \/ \E w \in DOMAIN wk : ProcessMessageStart(w)
    \/ \E w \in DOMAIN wk : GetObject(w)
    \/ \E w \in DOMAIN wk : GetObjectReadError(w)
    \/ \E w \in DOMAIN wk : ParseLogs(w)
    \/ \E w \in DOMAIN wk : SaveCompleted(w)
    \/ \E w \in DOMAIN wk : SaveFailed(w)
    \/ \E w \in DOMAIN wk : HandlerReturn(w)
    \/ \E w \in DOMAIN wk : Abort(w)

SpecStream == InitStream /\ [][NextStream]_vars

\* A JSON object whose size is a string: json.Unmarshal into the Job returns
\* an UnmarshalTypeError.
JobWithBadSize ==
    JObject([job_id |-> JStr("42"), bucket |-> JStr(Bucket), size |-> JStr("big")])

\* One worker container and a queue on which other senders have put two
\* messages whose bodies do not decode as a Job: text that is not JSON, and
\* an object with a member of the wrong type.
InitUndecodable ==
    /\ s3events = <<>>
    /\ trigLog = NoTrigLog
    /\ queue = Enqueue(<<>>, <<[body |-> NotJson, attrJobID |-> ""],
                               [body |-> JobWithBadSize, attrJobID |-> "42"]>>)
    /\ wk = [w \in {"w1"} |-> IdleWorker]
    /\ parser = [w \in {"w1"} |-> NewLogAggregation]
    /\ store = {}
    /\ lastPut = <<>>
    /\ built = <<>>
    /\ clock = 0
    /\ scan = NoScan

\* The worker's steps on such a queue: no call gets as far as the fetch.
NextUndecodable ==
    \/ \E i \in 1..Len(queue) : Redrive(i)
    \/ \E w \in DOMAIN wk : Deliver(w)
    \/ \E w \in DOMAIN wk : ProcessMessageStart(w)
    \/ \E w \in DOMAIN wk : HandlerReturn(w)
    \/ \E w \in DOMAIN wk : Abort(w)

SpecUndecodable == InitUndecodable /\ [][NextUndecodable]_vars /\ Fairness

\* The S3 events of the key-convention cases: one notification for a key,
\* or the notifications of two objects of test 42.
SegmentBatches ==
    {<<Notification(k)>> : k \in Keys \cup {KeyEmptyID, KeyExtra}}
        \cup {<<Notification(KeyGood), Notification(KeySecond)>>}

\* The pipeline with one such S3 event pending, trigger and one worker
\* container, the whole run within one tick of the clock.
InitSegments ==
    /\ s3events \in {<<b>> : b \in SegmentBatches}
    /\ trigLog = NoTrigLog
    /\ queue = <<>>
    /\ wk = [w \in {"w1"} |-> IdleWorker]
    /\ parser = [w \in {"w1"} |-> NewLogAggregation]
    /\ store = {}
    /\ lastPut = <<>>
    /\ built = <<>>
    /\ clock = MaxClock
    /\ scan = NoScan

NextSegments ==
    \/ TriggerHandler
    \/ \E i \in 1..Len(queue) : Redrive(i)
    \/ \E w \in DOMAIN wk : Deliver(w)
    \/ \E w \in DOMAIN wk : ProcessMessageStart(w)
    \/ \E w \in DOMAIN wk : GetObject(w)
    \/ \E w \in DOMAIN wk : ParseLogs(w)
    \/ \E w \in DOMAIN wk : SaveCompleted(w)
    \/ \E w \in DOMAIN wk : SaveFailed(w)
    \/ \E w \in DOMAIN wk : HandlerReturn(w)
    \/ \E w \in DOMAIN wk : Abort(w)

SpecSegments == InitSegments /\ [][NextSegments]_vars

\* The parser alone, on each file of up to MaxLines lines.
InitParser ==
    /\ s3events = <<>>
    /\ Idle
    /\ scan \in {StartScan(f) : f \in LogFiles(MaxLines)}

NextParser ==
    \/ ScanLine
    \/ ScanFail
    \/ ParseReturn

SpecParser == InitParser /\ [][NextParser]_vars

\* The loop taken one line at a time computes what Parse computes.
ScanAgreesWithParse ==
    /\ scan.pc = "done" =>
         /\ Parse(NewLogAggregation, scan.lines).ok
         /\ Parse(NewLogAggregation, scan.lines).state = scan.agg
    /\ scan.pc = "failed" => ~Parse(NewLogAggregation, scan.lines).ok

-----------------------------------------------------------------------------
(* Properties of the worker's processMessage and saveFailedResult.         *)

TrailOf(w) == wk[w].trail

\* The positions of the events `ev` in w's current processMessage call.
Events(w, ev) == {i \in 1..Len(TrailOf(w)) : TrailOf(w)[i].ev = ev}

Decoded(w) == \E i \in Events(w, "unmarshal") : TrailOf(w)[i].ok
FetchFailed(w) == \E i \in Events(w, "get") : ~TrailOf(w)[i].ok
ParseFailed(w) == \E i \in Events(w, "parse") : ~TrailOf(w)[i].ok
Returned(w) == Events(w, "return") # {}
PutFailed(w) == \E i \in Events(w, "put") : ~TrailOf(w)[i].ok

\* C1: when the body decodes and the fetch or Parse fails, the call makes
\* exactly one store write, of a Result with status "failed", the job's
\* job_id and the error as error_message, before it returns, and it returns
\* a non-nil error; nothing is written before the failure is known.
C1_FailedResultBeforeError ==
    \A w \in DOMAIN wk :
        (Decoded(w) /\ (FetchFailed(w) \/ ParseFailed(w))) =>
            /\ ~Returned(w) => Events(w, "put") = {}
            /\ Returned(w) =>
                 /\ Cardinality(Events(w, "put")) = 1
                 /\ \A i \in Events(w, "put") :
                      /\ TrailOf(w)[i].item.status = "failed"
                      /\ TrailOf(w)[i].item.job_id = wk[w].job.JobID
                      /\ TrailOf(w)[i].item.error_message = wk[w].processErr
                      /\ TrailOf(w)[i].item.error_message
                           \in {"failed to get S3 object", "failed to parse logs"}
                      /\ \A j \in Events(w, "return") : i < j
                 /\ wk[w].ret # ""
                 /\ wk[w].pc = "return"

\* A Parse failure whose failed Result could not be written, returned as an error.
C1_Witness ==
    \E w \in DOMAIN wk :
        /\ Decoded(w) /\ ParseFailed(w) /\ Returned(w) /\ PutFailed(w)
        /\ wk[w].ret = "failed to parse logs"

PersistenceError == "failed to save result"

\* C2 as stated: whenever a write of a Result fails, the error the call
\* returns is that persistence failure.
C2_PersistenceErrorReturned ==
    \A w \in DOMAIN wk :
        (PutFailed(w) /\ Returned(w)) => wk[w].ret = PersistenceError

\* C2: whenever a write of a Result fails the call returns a non-nil error;
\* for a completed Result it is the persistence failure, for a failed Result
\* it is the fetch or parse error, the persistence failure being only logged.
C2_WriteFailureFailsCall ==
    \A w \in DOMAIN wk :
        (PutFailed(w) /\ Returned(w)) =>
            /\ wk[w].ret # ""
            /\ wk[w].pc = "return"
            /\ \A i \in Events(w, "put") :
                 /\ TrailOf(w)[i].item.status = "completed"
                      => wk[w].ret = PersistenceError
                 /\ TrailOf(w)[i].item.status = "failed"
                      => /\ wk[w].ret = wk[w].processErr
                         /\ wk[w].ret # PersistenceError

\* The write of a completed Result failed and the call returned.
C2_Witness ==
    \E w \in DOMAIN wk :
        /\ PutFailed(w) /\ Returned(w)
        /\ \E i \in Events(w, "put") : TrailOf(w)[i].item.status = "completed"

-----------------------------------------------------------------------------
(* Properties of redelivery and of the results table.                      *)

PutSucceeded(w) == \E i \in Events(w, "put") : TrailOf(w)[i].ok

C4_LastWriteWins ==
    /\ \A x \in store :
         /\ Cardinality(ItemsOf(store, x["job_id"])) = 1
         /\ x["job_id"] \in DOMAIN lastPut
         /\ x = lastPut[x["job_id"]].item
    /\ \A id \in DOMAIN lastPut : lastPut[id].item \in store

\* A failed Result written over an earlier Result of the same job_id.
C4_Witness ==
    \E id \in DOMAIN lastPut :
        /\ lastPut[id].n >= 2
        /\ lastPut[id].item["status"] = "failed"
        /\ "line_count" \notin DOMAIN lastPut[id].item
        /\ lastPut[id].item \in store

Settled(i) == i <= Len(queue) /\ queue[i].state \in {"deleted", "dlq"}

\* C5: no message is received more than maxReceiveCount times; an
\* invocation that returns an error makes its batch visible again; a message
\* goes to the dead-letter queue only when it is visible again after
\* maxReceiveCount receives; and under fair delivery every message ends
\* deleted (acknowledged) or in the dead-letter queue.
C5_RedriveAndProgress ==
    /\ [](\A i \in 1..Len(queue) : queue[i].receiveCount <= maxReceiveCount)
    /\ [][\A w \in DOMAIN wk :
            (wk[w].pc = "return" /\ wk[w].ret # "" /\ wk'[w].pc = "idle") =>
                \A i \in Range(wk[w].batch) : queue'[i].state = "visible"]_vars
    /\ [][\A i \in 1..Len(queue) :
            (queue[i].state # "dlq" /\ queue'[i].state = "dlq") =>
                /\ queue[i].state = "visible"
                /\ queue[i].receiveCount = maxReceiveCount]_vars
    /\ \A i \in 1..MaxMsgs : (i <= Len(queue)) ~> Settled(i)

\* A job message in the dead-letter queue after maxReceiveCount receives.
C5_Witness ==
    \E i \in 1..Len(queue) :
        /\ queue[i].state = "dlq"
        /\ queue[i].receiveCount = maxReceiveCount
        /\ UnmarshalJob(queue[i].body).ok

-----------------------------------------------------------------------------
(* Properties of the trigger.                                              *)

LogIndexes == 1..Len(trigLog.records)
LogKey(i) == trigLog.records[i].key
LogOut(i) == trigLog.out[i]

\* C6: what the handler did for notification i, a message or not, is what
\* it does for that notification in a batch of its own.
C6_SiblingsIndependent ==
    \A i \in LogIndexes :
        LogOut(i) = TriggerLoop(<<trigLog.records[i]>>, <<trigLog.env[i]>>,
                                trigLog.at, 1, <<Unprocessed>>)[1]

\* A notification queued after a sibling before it failed.
C6_Witness ==
    \E i, j \in LogIndexes :
        i < j /\ LogOut(i).err # "" /\ LogOut(j).msgs # NoSend

\* The key has the three pieces of the naming convention.
MatchesConvention(key) ==
    LET parts == Split(key, "_")
    IN  Len(parts) >= 3 /\ parts[1] = LogsTest

HasJsonExtension(key) == HasSuffix(ToLower(key), DotJson)

\* Notification i passes the key filter, the metadata fetch, the job_id
\* extraction and the publish.
Passes(i) ==
    /\ HasJsonExtension(LogKey(i))
    /\ trigLog.env[i].headOK
    /\ MatchesConvention(LogKey(i))
    /\ trigLog.env[i].sendOK

\* C7: the invocation enqueues one message for each notification that
\* passes every step and none for any other: the queue grows by exactly
\* those messages, each once.
C7_OneMessagePerValidated ==
    /\ \A i \in LogIndexes : Len(LogOut(i).msgs) = IF Passes(i) THEN 1 ELSE 0
    /\ Len(queue) = trigLog.base + Cardinality({i \in LogIndexes : Passes(i)})
    /\ SubSeq(queue, trigLog.base + 1, Len(queue))
         = [j \in 1..Len(Sent(trigLog.out, 1)) |->
              QueueMessage(Sent(trigLog.out, 1)[j])]

\* A batch of one notification that passes and one that does not.
C7_Witness ==
    /\ \E i, j \in LogIndexes : Passes(i) /\ ~Passes(j)
    /\ Len(queue) = 1

\* C8: a queued Job's job_id is the second underscore-delimited piece of
\* its key; logs/test_42_20240101T000000.json gives "42"; logs/readme.txt is
\* skipped without an error; logs/test_bad.json fails without a Job.
C8_KeyConvention ==
    \A i \in LogIndexes :
        /\ LogOut(i).msgs # NoSend =>
             /\ Len(Split(LogKey(i), "_")) >= 3
             /\ LogOut(i).msgs[1].attrJobID = Join(Split(LogKey(i), "_")[2])
             /\ LogOut(i).msgs[1].body.fields["job_id"].v
                  = Join(Split(LogKey(i), "_")[2])
        /\ (LogKey(i) = KeyGood /\ trigLog.env[i].headOK /\ trigLog.env[i].sendOK) =>
             /\ LogOut(i).msgs # NoSend
             /\ LogOut(i).msgs[1].attrJobID = "42"
        /\ LogKey(i) = KeyReadme => LogOut(i).err = "" /\ LogOut(i).msgs = NoSend
        /\ LogKey(i) = KeyBad => LogOut(i).err # "" /\ LogOut(i).msgs = NoSend

\* The three keys in one batch: queued as "42", skipped, failed.
C8_Witness ==
    /\ \E i \in LogIndexes :
         LogKey(i) = KeyGood /\ LogOut(i).msgs # NoSend
             /\ LogOut(i).msgs[1].attrJobID = "42"
    /\ \E i \in LogIndexes : LogKey(i) \in {KeyReadme, KeyBad}

LogsPrefix == <<"l","o","g","s","/">>

HasPrefix(s, prefix) ==
    /\ Len(s) >= Len(prefix)
    /\ SubSeq(s, 1, Len(prefix)) = prefix

SilentlySkipped(i) ==
    LogOut(i).err = "" /\ ~LogOut(i).head /\ LogOut(i).msgs = NoSend

\* C9 as stated: a key without the json extension, or not under logs/, is
\* skipped: no Job, no metadata fetch, no error.
C9_NonMatchingSkipped ==
    \A i \in LogIndexes :
        (~HasJsonExtension(LogKey(i)) \/ ~HasPrefix(LogKey(i), LogsPrefix))
            => SilentlySkipped(i)

\* C9: exactly the keys without the json extension (compared without case)
\* are skipped, with no Job, no metadata fetch and no error; a key with the
\* extension that is not under logs/ has its metadata fetched and is
\* reported as a failure, with no Job.
C9_NonJsonSkipped ==
    \A i \in LogIndexes :
        /\ ~HasJsonExtension(LogKey(i)) => SilentlySkipped(i)
        /\ HasJsonExtension(LogKey(i)) => LogOut(i).head
        /\ (HasJsonExtension(LogKey(i)) /\ ~HasPrefix(LogKey(i), LogsPrefix)) =>
             LogOut(i).err # "" /\ LogOut(i).msgs = NoSend

\* A skipped key without the extension beside a failed key outside logs/.
C9_Witness ==
    \E i, j \in LogIndexes :
        /\ ~HasJsonExtension(LogKey(i)) /\ SilentlySkipped(i)
        /\ LogKey(j) = KeyData /\ LogOut(j).head /\ LogOut(j).err # ""

-----------------------------------------------------------------------------
(* The end-to-end scenario.                                                *)

-----------------------------------------------------------------------------
(* Properties of LogParser.Parse.                                           *)

\* The lines the loop has taken so far, and the last of them.
Scanned == SubSeq(scan.lines, 1, scan.i - 1)
LastLine == scan.lines[scan.i - 1]
Ingested == scan.pc \in {"loop", "done"} /\ scan.i > 1

IsEmptyLine(l) == l.kind = "empty"
IsBlankLine(l) == l.kind = "blank"
NonEmpty(l) == ~IsEmptyLine(l)
\* A line json.Unmarshal accepts, a line it rejects.
Decodes(l) == NonEmpty(l) /\ UnmarshalLogEntry(l).ok
Malformed(l) == NonEmpty(l) /\ ~UnmarshalLogEntry(l).ok
LevelOf(l) == UnmarshalLogEntry(l).entry.Level

CountWhere(lines, P(_)) == Cardinality({k \in 1..Len(lines) : P(lines[k])})

\* The Result processMessage builds from the aggregation Parse returned.
ResultOfScan == CompletedResult(ZeroJob, 0, scan.agg, scan.agg, 0, 0, 0)

\* C11 as stated: after Parse, total_lines (the Result's line_count) is
\* the number of non-empty lines, and processed_lines <= total_lines.
C11_TotalLinesNonEmpty ==
    scan.pc = "done" =>
        /\ scan.agg.TotalLines = CountWhere(scan.lines, NonEmpty)
        /\ ResultOfScan.LineCount = CountWhere(scan.lines, NonEmpty)
        /\ scan.agg.ProcessedLines <= scan.agg.TotalLines

\* C11: after Parse, total_lines (the Result's line_count) is the number
\* of lines the scanner yielded, the empty ones included, so it is at least
\* the number of non-empty lines; and processed_lines <= total_lines.
C11_TotalLinesAllLines ==
    scan.pc = "done" =>
        /\ scan.agg.TotalLines = Len(scan.lines)
        /\ ResultOfScan.LineCount = Len(scan.lines)
        /\ scan.agg.TotalLines >= CountWhere(scan.lines, NonEmpty)
        /\ scan.agg.ProcessedLines <= CountWhere(scan.lines, NonEmpty)
        /\ scan.agg.ProcessedLines <= scan.agg.TotalLines

\* A parsed file with an empty line between lines that are not.
C11_Witness ==
    /\ scan.pc = "done"
    /\ CountWhere(scan.lines, IsEmptyLine) >= 1
    /\ CountWhere(scan.lines, Decodes) >= 1
    /\ scan.agg.TotalLines > CountWhere(scan.lines, NonEmpty)

IsWarnRecord(l) == Decodes(l) /\ LevelOf(l) = "WARN"

\* The decode failures the aggregation has tallied: what WarnCount holds
\* beyond the WARN records.
DecodeFailures(a, lines) == a.WarnCount - CountWhere(lines, IsWarnRecord)

\* C12: every non-empty line is counted once, as a processed line or as a
\* decode failure and never as both: after every line, processed_lines plus
\* the decode failures tallied is the number of non-empty lines taken, and
\* the last line added one to exactly one of the two (none if it is empty).
C12_NonEmptyLinesPartitioned ==
    (scan.pc \in {"loop", "done"}) =>
        /\ scan.agg.ProcessedLines = CountWhere(Scanned, Decodes)
        /\ DecodeFailures(scan.agg, Scanned) = CountWhere(Scanned, Malformed)
        /\ scan.agg.ProcessedLines + DecodeFailures(scan.agg, Scanned)
             = CountWhere(Scanned, NonEmpty)
        /\ ((scan.pc = "loop" /\ scan.i > 1) =>
             LET dP == scan.agg.ProcessedLines - scan.before.ProcessedLines
                 dF == DecodeFailures(scan.agg, Scanned)
                         - DecodeFailures(scan.before, SubSeq(scan.lines, 1, scan.i - 2))
             IN  /\ dP \in {0, 1} /\ dF \in {0, 1}
                 /\ dP + dF = IF NonEmpty(LastLine) THEN 1 ELSE 0)

\* A parsed file with a processed line, a decode failure and an empty line.
C12_Witness ==
    /\ scan.pc = "done"
    /\ CountWhere(scan.lines, Decodes) = 1
    /\ CountWhere(scan.lines, Malformed) = 1
    /\ CountWhere(scan.lines, IsEmptyLine) = 1
    /\ scan.agg.ProcessedLines = 1

LastLineMalformed == scan.pc = "loop" /\ scan.i > 1 /\ Malformed(LastLine)

Scannable(l) == l.kind \notin {"toolong", "readerror"}
WellFormedOrEmpty(l) == ~Malformed(l)

\* C15: on a file the scanner can read to its end, lines that do not decode
\* do not make Parse fail, and the aggregation returned is the one of the
\* file without them, but for the count of them in warn_count and
\* total_lines: the lines after a malformed line are ingested as if it were
\* not there.
C15_MalformedNeverAborts ==
    (\A k \in 1..Len(scan.lines) : Scannable(scan.lines[k])) =>
        /\ scan.pc # "failed"
        /\ Parse(NewLogAggregation, scan.lines).ok
        /\ scan.pc = "done" =>
             LET n == CountWhere(scan.lines, Malformed)
                 clean == Parse(NewLogAggregation,
                                SelectSeq(scan.lines, WellFormedOrEmpty)).state
             IN  scan.agg = [clean EXCEPT !.WarnCount = @ + n, !.TotalLines = @ + n]

\* A parsed file with a record after a line that does not decode.
C15_Witness ==
    /\ scan.pc = "done"
    /\ \E k, j \in 1..Len(scan.lines) :
         k < j /\ Malformed(scan.lines[k]) /\ Decodes(scan.lines[j])
    /\ scan.agg.ProcessedLines >= 1

RECURSIVE SumResponseTimes(_)
\* The sum of response_time_ms over the lines that decode.
SumResponseTimes(lines) ==
    IF lines = <<>> THEN 0
    ELSE (IF Decodes(Head(lines))
          THEN UnmarshalLogEntry(Head(lines)).entry.ResponseTimeMs ELSE 0)
         + SumResponseTimes(Tail(lines))

\* C16: after any number of lines GetAverageResponseTime is 0 when no
\* record was processed, with no division by zero, and otherwise the sum of
\* response_time_ms over the processed records divided by their number,
\* malformed and empty lines not counted.
C16_AverageOverProcessed ==
    (scan.pc \in {"loop", "done"}) =>
        LET avg == GetAverageResponseTime(scan.agg)
            n == CountWhere(Scanned, Decodes)
        IN  /\ avg.den # 0
            /\ n = 0 => avg = ZeroFloat
            /\ n > 0 => avg = Ratio(SumResponseTimes(Scanned), n)
            /\ scan.agg.TotalResponseMs = SumResponseTimes(Scanned)

\* A parsed file of malformed and empty lines only.
C16_Witness ==
    /\ scan.pc = "done"
    /\ Len(scan.lines) >= 2
    /\ CountWhere(scan.lines, Malformed) >= 1
    /\ CountWhere(scan.lines, IsEmptyLine) >= 1
    /\ scan.agg.ProcessedLines = 0
    /\ GetAverageResponseTime(scan.agg) = ZeroFloat

EntryOf(l) == UnmarshalLogEntry(l).entry
\* The records processed so far.
Records == {k \in 1..(scan.i - 1) : Decodes(scan.lines[k])}
NoNegativeResponse == \A k \in Records : EntryOf(scan.lines[k]).ResponseTimeMs >= 0

\* The largest response_time_ms of the records in `ks`, 0 if there is none.
MaxResponseOf(ks) ==
    IF ks = {} THEN 0
    ELSE CHOOSE x \in {EntryOf(scan.lines[k]).ResponseTimeMs : k \in ks} :
             \A k \in ks : EntryOf(scan.lines[k]).ResponseTimeMs <= x

\* C17: max_response_ms is 0 before the first line, does not decrease from
\* one line to the next, and, while the processed records have
\* response_time_ms >= 0, is the largest response_time_ms among them (0 if
\* there is none).
C17_MaxResponseMonotone ==
    (scan.pc \in {"loop", "done"}) =>
        /\ scan.i = 1 => scan.agg.MaxResponseMs = 0
        /\ scan.agg.MaxResponseMs >= scan.before.MaxResponseMs
        /\ scan.agg.MaxResponseMs >= 0
        /\ NoNegativeResponse => scan.agg.MaxResponseMs = MaxResponseOf(Records)

\* A record processed whose response time is below the maximum so far.
C17_Witness ==
    /\ scan.pc = "loop"
    /\ scan.i > 2
    /\ Decodes(LastLine)
    /\ EntryOf(LastLine).ResponseTimeMs >= 0
    /\ EntryOf(LastLine).ResponseTimeMs < scan.before.MaxResponseMs
    /\ scan.agg.MaxResponseMs = scan.before.MaxResponseMs
    /\ NoNegativeResponse

AllRecords == {k \in 1..Len(scan.lines) : Decodes(scan.lines[k])}

\* C18: the Result's unique_users is the number of distinct non-empty
\* user_id values of the processed records, and unique_endpoints that of
\* their non-empty endpoint values; an empty or absent value and a malformed
\* line add nothing.
C18_UniqueCounts ==
    scan.pc = "done" =>
        /\ ResultOfScan.UniqueUsers
             = Cardinality({EntryOf(scan.lines[k]).UserID : k \in AllRecords} \ {""})
        /\ ResultOfScan.UniqueEndpoints
             = Cardinality({EntryOf(scan.lines[k]).Endpoint : k \in AllRecords} \ {""})

\* A parsed file with a record of empty user_id, a record without
\* endpoint, and an object that does not decode but names a user.
C18_Witness ==
    /\ scan.pc = "done"
    /\ \E k \in AllRecords : EntryOf(scan.lines[k]).UserID = ""
    /\ \E k \in AllRecords : EntryOf(scan.lines[k]).Endpoint = ""
    /\ \E k \in 1..Len(scan.lines) : scan.lines[k] = LineBadType
    /\ ResultOfScan.UniqueUsers = 1
    /\ ResultOfScan.UniqueEndpoints = 1

Orderings(n) == {f \in [1..n -> 1..n] : \A x, y \in 1..n : x # y => f[x] # f[y]}
Reordered(lines, f) == [k \in 1..Len(lines) |-> lines[f[k]]]

\* C19: every reordering of the lines of a parsed file gives the same
\* aggregation: the same total_lines, processed_lines, level counts,
\* total_response_ms, max_response_ms, user and endpoint sets and
\* status-code counts.
C19_OrderIndependent ==
    scan.pc = "done" =>
        \A f \in Orderings(Len(scan.lines)) :
            /\ Parse(NewLogAggregation, Reordered(scan.lines, f)).ok
            /\ Parse(NewLogAggregation, Reordered(scan.lines, f)).state = scan.agg

\* A parsed file of three different lines whose largest response time is
\* not in the last record.
C19_Witness ==
    /\ scan.pc = "done"
    /\ Len(scan.lines) >= 3
    /\ \A k, j \in 1..Len(scan.lines) : k # j => scan.lines[k] # scan.lines[j]
    /\ Cardinality(AllRecords) >= 2
    /\ Decodes(scan.lines[Len(scan.lines)])
    /\ EntryOf(scan.lines[Len(scan.lines)]).ResponseTimeMs < scan.agg.MaxResponseMs
    /\ DOMAIN scan.agg.StatusCodeCounts # {}

KnownLevels == {"INFO", "WARN", "ERROR", "DEBUG"}
HasKnownLevel(l) == Decodes(l) /\ LevelOf(l) \in KnownLevels
HasOtherLevel(l) == Decodes(l) /\ LevelOf(l) \notin KnownLevels
LevelCountSum(a) == a.ErrorCount + a.WarnCount + a.InfoCount + a.DebugCount

-----------------------------------------------------------------------------
(* C21: the states of one attempt.                                         *)

\* The positions of an attempt on a decoded Job: fetching, aggregating, and
\* the two outcomes about to be written.
AttemptTransitions ==
    {<<"next", "fetch">>, <<"fetch", "parse">>, <<"fetch", "saveFailed">>,
     <<"parse", "save">>, <<"parse", "saveFailed">>,
     <<"save", "next">>, <<"save", "return">>, <<"saveFailed", "return">>}

\* w takes the step.
Steps(w) == wk'[w] # wk[w]

\* The step writes to the table (successfully or not, the table is reached
\* only here).
StoreTouched == store' # store \/ lastPut' # lastPut

\* The events of w's trail from position i on.
EventsAfter(w, i) == {TrailOf(w)[j].ev : j \in (i + 1)..Len(TrailOf(w))}

\* In a trail: at most one put; it comes after the fetch failed, or after the
\* fetch succeeded and Parse finished; only the emission and the return
\* follow it.
TrailOrdered(w) ==
    /\ Cardinality(Events(w, "put")) <= 1
    /\ \A i \in Events(w, "put") :
         /\ i > 1
         /\ \/ TrailOf(w)[i - 1].ev = "parse"
            \/ TrailOf(w)[i - 1].ev = "get" /\ ~TrailOf(w)[i - 1].ok
         /\ TrailOf(w)[i - 1].ev = "parse" =>
              /\ i > 2
              /\ TrailOf(w)[i - 2].ev = "get"
              /\ TrailOf(w)[i - 2].ok
         /\ EventsAfter(w, i) \subseteq {"return"} \cup MetricsOutcomes \cup {"none"}

\* C21: an attempt on a decoded Job moves received -> fetching ->
\* aggregating -> (completed | failed) and in no other way (short of being
\* aborted); the table is touched only by the step that leaves "save" or
\* "saveFailed", at most once per attempt, after the fetch and Parse have
\* finished or failed, and last; no step taken while fetching or aggregating
\* changes the table.
C21_AttemptStateMachine ==
    /\ [](\A w \in DOMAIN wk : TrailOrdered(w))
    /\ [][/\ \A w \in DOMAIN wk :
               /\ (wk'[w].pc # wk[w].pc /\ wk[w].pc \in {"fetch", "parse", "save", "saveFailed"}
                      /\ wk'[w].pc # "idle")
                    => <<wk[w].pc, wk'[w].pc>> \in AttemptTransitions
               /\ (wk'[w].pc = "fetch" /\ wk[w].pc # "fetch") => wk[w].pc = "next"
               /\ (Steps(w) /\ wk[w].pc \in {"next", "fetch", "parse"}) => ~StoreTouched
          /\ StoreTouched =>
               \E w \in DOMAIN wk :
                   /\ Steps(w)
                   /\ wk[w].pc \in {"save", "saveFailed"}
                   /\ wk'[w].pc \in {"next", "return"}
                   /\ Cardinality({i \in 1..Len(wk'[w].trail) :
                                      wk'[w].trail[i].ev = "put"}) = 1]_vars

\* A completed attempt: fetched, aggregated, then written, then returned.
C21_Witness ==
    \E w \in DOMAIN wk :
        /\ PutSucceeded(w)
        /\ Returned(w)
        /\ \E i \in Events(w, "put") : TrailOf(w)[i - 1].ev = "parse"
        /\ lastPut # <<>>

-----------------------------------------------------------------------------
(* C22: cancellation.                                                      *)

\* w's invocation is aborted in this step while an attempt has not reached
\* its store write.
AbortedBeforeWrite(w) ==
    /\ wk[w].pc \in {"next", "fetch", "parse", "save", "saveFailed"}
    /\ wk'[w].pc = "idle"

-----------------------------------------------------------------------------
(* C23: metrics are a side channel.                                        *)

\* What processRecord yields for record i of the last trigger invocation
\* when no collector exists.
WithoutCollector(i) ==
    processRecord(trigLog.records[i], [trigLog.env[i] EXCEPT !.metrics = "nil"],
                  trigLog.at)

\* The outcome of the emission in w's current processMessage call.
Emitted(w) == {TrailOf(w)[i].ev : i \in 1..Len(TrailOf(w))} \cap MetricsOutcomes

\* What processMessage returns given the outcomes of everything but the
\* emission: the decode, the fetch, Parse and the write.
ReturnWithoutMetrics(w) ==
    IF ~Decoded(w) THEN "failed to unmarshal job"
    ELSE IF FetchFailed(w) THEN "failed to get S3 object"
    ELSE IF ParseFailed(w) THEN "failed to parse logs"
    ELSE IF PutFailed(w) THEN PersistenceError
    ELSE ""

\* C23: whatever becomes of a metrics emission (sent, failed, no collector),
\* a trigger invocation returns nil and each record's error, HeadObject call,
\* messages sent and log line are those of a run without collector; and a
\* processMessage call returns what the decode, fetch, Parse and write
\* outcomes alone determine, its write having been applied exactly as built
\* before the emission.
C23_MetricsBestEffort ==
    /\ [][trigLog' # trigLog =>
            /\ trigLog'.ret = ""
            /\ \A i \in 1..Len(trigLog'.records) :
                 [trigLog'.out[i] EXCEPT !.metric = "none"] =
                    [WithoutCollector(i)' EXCEPT !.metric = "none"]]_vars
    /\ [](\A w \in DOMAIN wk :
            Returned(w) =>
               /\ wk[w].ret = ReturnWithoutMetrics(w)
               /\ PutSucceeded(w) =>
                    /\ wk[w].result.JobID \in DOMAIN lastPut
                    /\ lastPut[wk[w].result.JobID].item = MarshalMap(wk[w].result)
                    /\ MarshalMap(wk[w].result) \in store)

\* Both emissions failed: the trigger's, for a record whose message was
\* nevertheless queued without error, and the worker's, in a call that wrote
\* its completed Result and returned nil.
C23_Witness ==
    /\ \E i \in 1..Len(trigLog.records) :
         /\ trigLog.out[i].metric = "failed"
         /\ trigLog.out[i].err = ""
         /\ trigLog.out[i].msgs # NoSend
    /\ \E w \in DOMAIN wk :
         /\ Emitted(w) = {"failed"}
         /\ PutSucceeded(w)
         /\ wk[w].result.Status = "completed"
         /\ wk[w].ret = ""

-----------------------------------------------------------------------------
(* C24: status and error_message.                                          *)

\* The item carries an error_message attribute (omitempty leaves an empty
\* one out), and it is not the empty string.
HasErrorMessage(item) ==
    "error_message" \in DOMAIN item /\ item["error_message"] # ""

StatusOK(item) ==
    /\ item["status"] \in {"completed", "failed"}
    /\ HasErrorMessage(item) <=> item["status"] = "failed"
    /\ "error_message" \in DOMAIN item => item["error_message"] # ""

\* C24: every item of the table, every item ever written and every Result
\* handed to PutItem has status "completed" or "failed", and has a non-empty
\* error_message exactly when the status is "failed".
C24_StatusAndErrorMessage ==
    /\ \A item \in store : StatusOK(item)
    /\ \A id \in DOMAIN lastPut : StatusOK(lastPut[id].item)
    /\ \A w \in DOMAIN wk :
         \A i \in Events(w, "put") :
            /\ TrailOf(w)[i].item.status \in {"completed", "failed"}
            /\ TrailOf(w)[i].item.error_message # "" <=>
                  TrailOf(w)[i].item.status = "failed"

\* A completed Result has replaced a failed one of the same job: the table
\* holds the completed item, without error_message, after two writes.
C24_Witness ==
    \E item \in store :
        /\ item["status"] = "completed"
        /\ ~HasErrorMessage(item)
        /\ lastPut[item["job_id"]].n >= 2
        /\ \E w \in DOMAIN wk : Returned(w) /\ PutSucceeded(w)

-----------------------------------------------------------------------------
(* C25: the timestamps of a Result.                                        *)

\* The items of the table and the items ever written.
ItemsWritten == store \cup {lastPut[id].item : id \in DOMAIN lastPut}

\* C25 as stated: every item written has expires_at equal to completed_at
\* plus the retention window, so expires_at > completed_at >= started_at.
C25_ExpiresAtFromCompletedAt ==
    \A item \in ItemsWritten :
        /\ item["expires_at"] = item["completed_at"] + RetentionSeconds
        /\ item["expires_at"] > item["completed_at"]
        /\ item["completed_at"] >= item["started_at"]

\* C25, as built: expires_at is the retention window after a reading of the
\* clock taken after the one stored as completed_at, so it is at least
\* completed_at plus the window, and exceeds it by no more than the clock
\* advanced during the call; expires_at > completed_at >= started_at.
C25_ExpiresAtLeastRetention ==
    \A item \in ItemsWritten :
        /\ item["expires_at"] >= item["completed_at"] + RetentionSeconds
        /\ item["expires_at"] <= clock + RetentionSeconds
        /\ item["expires_at"] > item["completed_at"]
        /\ item["completed_at"] >= item["started_at"]

\* The clock advanced between the two readings: the item in the table
\* expires later than the retention window after its completed_at.
C25_Witness ==
    \E item \in store :
        item["expires_at"] > item["completed_at"] + RetentionSeconds

-----------------------------------------------------------------------------
(* C26: two workers on the same job_id.                                    *)

\* w's step is a PutItem that succeeded.
Writes(w) ==
    /\ Steps(w)
    /\ wk[w].pc \in {"save", "saveFailed"}
    /\ lastPut' # lastPut

\* C26: with two workers on messages of the same job_id, under every
\* interleaving the table holds for a job_id written to exactly one item,
\* the one written last, whole; and each successful write leaves for its
\* job_id exactly the Result its attempt built, every attribute from that
\* Result and none from the item it replaced.
C26_ConcurrentLastWriteWins ==
    /\ [](/\ \A id \in DOMAIN lastPut : ItemsOf(store, id) = {lastPut[id].item}
          /\ \A item \in store : item["job_id"] \in DOMAIN lastPut)
    /\ [][\A w \in DOMAIN wk :
             Writes(w) =>
                /\ ItemsOf(store', wk[w].result.JobID) = {MarshalMap(wk[w].result)}
                /\ lastPut'[wk[w].result.JobID].item = MarshalMap(wk[w].result)
                /\ \A x \in store' :
                     x["job_id"] # wk[w].result.JobID => x \in store]_vars

\* Both workers, in invocations that overlap, have written different Results
\* of the same job_id; the one written last, which the table holds, has the
\* earlier completed_at.
C26_Witness ==
    \E w, v \in DOMAIN wk :
        /\ w # v
        /\ PutSucceeded(w) /\ Returned(w)
        /\ PutSucceeded(v) /\ Returned(v)
        /\ wk[w].result.JobID = wk[v].result.JobID
        /\ wk[w].result.CompletedAt < wk[v].result.CompletedAt
        /\ store = {MarshalMap(wk[w].result)}
        /\ lastPut[wk[w].result.JobID].n = 2

-----------------------------------------------------------------------------
(* C27: no aggregation state shared between jobs.                          *)

\* The Result of a job processed alone by a fresh container, all timestamps
\* 0: a function of the Job descriptor and of the object's content only.
ResultAlone(body) ==
    LET job == UnmarshalJob(body).job
        p == Parse(NewLogAggregation, ObjectBody(job.Key))
    IN  IF p.ok THEN CompletedResult(job, 0, p.state, p.state, 0, 0, 0)
        ELSE FailedResult(job, 0, "failed to parse logs", 0, 0, 0)

StatisticsAttributes ==
    {"status", "line_count", "error_count", "warn_count", "info_count",
     "avg_response_time_ms", "max_response_time_ms", "unique_users",
     "unique_endpoints", "file_size_bytes"}

\* The statistics attributes an item carries.
StatisticsOfItem(item) ==
    [a \in StatisticsAttributes \cap DOMAIN item |-> item[a]]

\* C27: the statistics of every Result built for a message, and of every
\* completed item of the table, are those of the message's job processed
\* alone by a fresh container, whether the job came second in a batch of the
\* same invocation or was processed while another worker processed another.
C27_NoSharedAggregation ==
    /\ \A m \in DOMAIN built :
         \A k \in 1..Len(built[m]) :
            built[m][k] = Statistics(ResultAlone(queue[m].body))
    /\ \A w \in DOMAIN wk :
         wk[w].pc = "save" =>
            Statistics(wk[w].result) =
               Statistics(ResultAlone(queue[CurrentMessage(w)].body))
    /\ \A item \in store :
         item["status"] = "completed" =>
            \E m \in 1..Len(queue) :
               StatisticsOfItem(item) =
                  StatisticsOfItem(MarshalMap(ResultAlone(queue[m].body)))

\* A worker has aggregated the second job of its batch, in the invocation
\* and container that processed the first; the two jobs' statistics differ.
C27_Witness ==
    \E w \in DOMAIN wk :
        /\ Len(wk[w].batch) = 2
        /\ wk[w].idx = 2
        /\ wk[w].pc = "save"
        /\ DOMAIN built = {1, 2}
        /\ built[1] # built[2]
        /\ parser[w] # NewLogAggregation

-----------------------------------------------------------------------------
(* C28: what a nil return of the worker's handler stands for.              *)

\* The Job of queue message i, if its body decodes.
JobOf(i) == UnmarshalJob(queue[i].body)

\* The handler's loop moves on from message idx of w's batch in this step.
MovesOn(w) ==
    /\ wk[w].pc # "idle"
    /\ wk'[w].pc # "idle"
    /\ wk'[w].idx # wk[w].idx

\* Message i is acknowledged (deleted by the event source mapping) in this
\* step.
Acknowledged(i) == queue[i].state # "deleted" /\ queue'[i].state = "deleted"

\* C28: the handler moves on from a message only by the step that wrote, with
\* success, the completed Result of that message's Job; it returns nil only
\* when it has moved on from every message of the batch, the table then
\* holding a completed item for each of their job_ids; and a message is
\* acknowledged only by a return of nil of an invocation whose batch holds
\* it.  So no message is acknowledged whose attempt ended in a failed
\* Result, a failed write or an undecodable body.
C28_NilOnlyIfAllCompleted ==
    /\ [](\A w \in DOMAIN wk :
            wk[w].pc = "return" =>
               /\ wk[w].ret = "" <=> wk[w].idx = Len(wk[w].batch) + 1
               /\ wk[w].ret = "" =>
                    \A k \in 1..Len(wk[w].batch) :
                       /\ JobOf(wk[w].batch[k]).ok
                       /\ \E item \in store :
                            /\ item["job_id"] = JobOf(wk[w].batch[k]).job.JobID
                            /\ item["status"] = "completed")
    /\ [](\A i \in 1..Len(queue) :
            queue[i].state = "deleted" =>
               JobOf(i).ok /\ JobOf(i).job.JobID \in DOMAIN lastPut)
    /\ [][/\ \A w \in DOMAIN wk :
               MovesOn(w) =>
                  /\ wk'[w].idx = wk[w].idx + 1
                  /\ wk[w].pc = "save"
                  /\ JobOf(CurrentMessage(w)).ok
                  /\ wk[w].result.JobID = JobOf(CurrentMessage(w)).job.JobID
                  /\ wk[w].result.Status = "completed"
                  /\ Writes(w)
                  /\ MarshalMap(wk[w].result) \in store'
          /\ \A i \in 1..Len(queue) :
               Acknowledged(i) =>
                  \E w \in DOMAIN wk :
                     /\ wk[w].pc = "return"
                     /\ wk[w].ret = ""
                     /\ i \in Range(wk[w].batch)
                     /\ wk'[w].pc = "idle"]_vars

\* An invocation on a batch of two messages is about to return nil, and one
\* of the messages was released before by an invocation that returned an
\* error.
C28_Witness ==
    \E w \in DOMAIN wk :
        /\ wk[w].pc = "return"
        /\ wk[w].ret = ""
        /\ Len(wk[w].batch) = 2
        /\ \E i \in Range(wk[w].batch) : queue[i].receiveCount >= 2

-----------------------------------------------------------------------------
(* C29: one message at a time, in batch order, stopping at the first error.*)

\* The last event of w's current processMessage call.
LastEvent(w) == TrailOf(w)[Len(TrailOf(w))]

\* processMessage has returned an error in w's current call.
FailedCall(w) ==
    /\ TrailOf(w) # <<>>
    /\ LastEvent(w).ev = "return"
    /\ ~LastEvent(w).ok

\* The item the table holds for the job_id of message k of w's batch is the
\* completed Result written for it, or, when the message at which the
\* handler stands has the same job_id, what that message's attempt wrote
\* over it.
EarlierResultKept(w, k) ==
    LET id == JobOf(wk[w].batch[k]).job.JobID
        at == wk[w].batch[wk[w].idx]
    IN  /\ id \in DOMAIN lastPut
        /\ ItemsOf(store, id) = {lastPut[id].item}
        /\ \/ lastPut[id].item["status"] = "completed"
           \/ /\ wk[w].idx <= Len(wk[w].batch)
              /\ JobOf(at).ok
              /\ JobOf(at).job.JobID = id

-----------------------------------------------------------------------------
(* C30: dead-lettered although completed.                                  *)

\* w's handler returns an error in this step.
ReturnsError(w) ==
    /\ wk[w].pc = "return"
    /\ wk[w].ret # ""
    /\ wk'[w].pc = "idle"

\* C30: a return of an error releases the whole batch, the messages whose
\* completed Result the invocation wrote included: each is visible again
\* with its receive count kept, none is deleted; and a message is in the
\* dead-letter queue only after maxReceiveCount receives.  Hence the state
\* of C30_Witness: a message dead-lettered although each of its attempts
\* wrote a completed Result.
C30_ErrorReleasesWholeBatch ==
    /\ [](\A i \in 1..Len(queue) :
            queue[i].state = "dlq" => queue[i].receiveCount = maxReceiveCount)
    /\ [][\A w \in DOMAIN wk :
             ReturnsError(w) =>
                /\ store' = store
                /\ \A k \in 1..Len(wk[w].batch) :
                     /\ queue'[wk[w].batch[k]] =
                           [queue[wk[w].batch[k]] EXCEPT !.state = "visible"]
                     /\ k < wk[w].idx => JobOf(wk[w].batch[k]).job.JobID \in DOMAIN lastPut]_vars

\* The job's message is in the dead-letter queue after maxReceiveCount
\* receives, behind it the undecodable message it was batched with; each of
\* the job's attempts built and wrote a completed Result (so each of its
\* processMessage calls returned nil, and each invocation returned the
\* other message's error), and the table holds a completed item for its
\* job_id.
C30_Witness ==
    /\ queue[1].state = "dlq"
    /\ queue[2].state = "dlq"
    /\ ~JobOf(2).ok
    /\ JobOf(1).ok
    /\ 1 \in DOMAIN built
    /\ Len(built[1]) = maxReceiveCount
    /\ \A k \in 1..Len(built[1]) : built[1][k].status = "completed"
    /\ JobOf(1).job.JobID \in DOMAIN lastPut
    /\ lastPut[JobOf(1).job.JobID].n = maxReceiveCount
    /\ \E item \in store :
         /\ item["job_id"] = JobOf(1).job.JobID
         /\ item["status"] = "completed"
         /\ ~HasErrorMessage(item)

-----------------------------------------------------------------------------
(* C31: a failed Result replaces a completed one.                          *)

\* w's saveFailedResult writes its Result in this step.
WritesFailed(w) ==
    /\ wk[w].pc = "saveFailed"
    /\ PutSucceeded(w)'

\* C31: the write of saveFailedResult looks at nothing the table holds:
\* whatever item the job_id has, a completed one included, the table holds
\* afterwards for that job_id exactly the failed Result, with the error of
\* the fetch or of Parse as error_message, and the items of other job_ids
\* as they were.
C31_FailedReplacesCompleted ==
    [][\A w \in DOMAIN wk :
          WritesFailed(w) =>
             LET item == MarshalMap(wk[w].result)
             IN  /\ item["job_id"] = wk[w].job.JobID
                 /\ item["status"] = "failed"
                 /\ item["error_message"] = wk[w].processErr
                 /\ wk[w].processErr \in {"failed to get S3 object", "failed to parse logs"}
                 /\ ItemsOf(store', item["job_id"]) = {item}
                 /\ \A x \in store : x["job_id"] # item["job_id"] => x \in store'
                 /\ store' \subseteq store \cup {item}]_vars

\* The second delivery of a message has written a failed Result, Parse
\* having failed; the first delivery built a completed Result and wrote it,
\* and the table now holds the failed one for the job_id.
C31_Witness ==
    \E w \in DOMAIN wk :
        /\ wk[w].pc = "return"
        /\ ParseFailed(w)
        /\ PutSucceeded(w)
        /\ LET m == wk[w].batch[1]
               id == wk[w].job.JobID
           IN  /\ queue[m].receiveCount = 2
               /\ m \in DOMAIN built
               /\ Len(built[m]) = 2
               /\ built[m][1].status = "completed"
               /\ built[m][2].status = "failed"
               /\ id \in DOMAIN lastPut
               /\ lastPut[id].n = 2
               /\ \A item \in ItemsOf(store, id) : item["status"] = "failed"
               /\ ItemsOf(store, id) # {}

-----------------------------------------------------------------------------
(* C32: the trigger reports no failure to its invoker.                     *)

\* The notifications of the last invocation whose processRecord failed.
FailedRecords == {i \in 1..Len(trigLog.out) : trigLog.out[i].err # ""}

\* The notifications of the last invocation that produced a Job.
QueuedRecords == {i \in 1..Len(trigLog.out) : trigLog.out[i].msgs # NoSend}

\* C32: whatever the notifications of a batch met (HeadObject failing, no
\* test_id in the key, SendMessage failing), the trigger handler returns nil
\* and the S3 event is done with, not kept for a retry; every notification
\* of the batch was processed; a failed one left no message on the queue,
\* printed nothing but the handler's error line, and was counted in
\* TriggerFailures when there is a collector; the queue grew by exactly the
\* messages of the notifications that did not fail and were not skipped.
C32_TriggerAlwaysReturnsNil ==
    /\ [](trigLog # NoTrigLog =>
            /\ trigLog.ret = ""
            /\ s3events = <<>>
            /\ Len(trigLog.out) = Len(trigLog.records)
            /\ \A i \in 1..Len(trigLog.out) : trigLog.out[i] # Unprocessed
            /\ \A i \in FailedRecords :
                 /\ trigLog.out[i].msgs = NoSend
                 /\ trigLog.out[i].log = ""
                 /\ trigLog.out[i].metric = EmitBatch(trigLog.env[i].metrics)
            /\ FailedRecords \cap QueuedRecords = {}
            /\ Len(queue) = trigLog.base + Cardinality(QueuedRecords)
            /\ \A i \in QueuedRecords : trigLog.out[i].err = "")
    /\ [][trigLog' # trigLog =>
             /\ s3events' = Tail(s3events)
             /\ Len(queue') - Len(queue) =
                  Cardinality({i \in 1..Len(trigLog'.out) :
                                 /\ trigLog'.out[i].err = ""
                                 /\ IsJSONFile(trigLog'.records[i].key)})]_vars

\* An invocation on two notifications: the first failed (HeadObject, the
\* key or SendMessage), the second was queued, the handler returned nil and
\* the event is gone.
C32_Witness ==
    /\ Len(trigLog.records) = 2
    /\ 1 \in FailedRecords
    /\ 2 \in QueuedRecords
    /\ trigLog.ret = ""
    /\ s3events = <<>>
    /\ Len(queue) = 1

-----------------------------------------------------------------------------
(* C33: a message whose body is not a Job.                                 *)

\* json.Unmarshal failed in w's current processMessage call.
DecodeFailed(w) == \E i \in Events(w, "unmarshal") : ~TrailOf(w)[i].ok

\* C33: on a queue of messages whose bodies do not decode as a Job, a
\* processMessage call whose json.Unmarshal fails has done nothing else when
\* it returns: no GetObject, no PutItem, and the handler is at its return
\* with that error, at that message; the table stays empty and no Result is
\* built, on every delivery; no such message is deleted from the queue, and
\* with deliveries and the redrive policy going on each of them ends, and
\* stays, in the dead-letter queue, after maxReceiveCount receives.
C33_UndecodableLeavesNoRecord ==
    /\ [](/\ \A i \in 1..Len(queue) : ~JobOf(i).ok
          /\ \A w \in DOMAIN wk :
               DecodeFailed(w) =>
                  /\ TrailOf(w) = <<Event("unmarshal", FALSE, NoItem),
                                    Event("return", FALSE, NoItem)>>
                  /\ Events(w, "get") = {}
                  /\ Events(w, "put") = {}
                  /\ wk[w].pc = "return"
                  /\ wk[w].ret = "failed to unmarshal job"
                  /\ wk[w].idx <= Len(wk[w].batch)
                  /\ ~JobOf(CurrentMessage(w)).ok
          /\ store = {}
          /\ lastPut = <<>>
          /\ built = <<>>
          /\ \A i \in 1..Len(queue) :
               /\ queue[i].state # "deleted"
               /\ queue[i].state = "dlq" => queue[i].receiveCount = maxReceiveCount)
    /\ <>[](\A i \in 1..Len(queue) : queue[i].state = "dlq")

\* Both undecodable messages are in the dead-letter queue, each after
\* maxReceiveCount deliveries, and the table is empty.
C33_Witness ==
    /\ Len(queue) = 2
    /\ \A i \in 1..Len(queue) :
         /\ ~JobOf(i).ok
         /\ queue[i].state = "dlq"
         /\ queue[i].receiveCount = maxReceiveCount
    /\ store = {}
    /\ lastPut = <<>>

-----------------------------------------------------------------------------
(* C34: when Parse fails.                                                  *)

\* The attributes of an item that come from the aggregation.
AggregateAttributes ==
    {"line_count", "error_count", "warn_count", "info_count",
     "avg_response_time_ms", "max_response_time_ms", "unique_users",
     "unique_endpoints"}

\* The scanner meets a read error or a line over its limit on this body.
StreamBreaks(body) ==
    \E i \in 1..Len(body) : body[i].kind \in {"toolong", "readerror"}

\* The Result carries no statistics.
NoStatistics(r) ==
    /\ r.LineCount = 0
    /\ r.ErrorCount = 0
    /\ r.WarnCount = 0
    /\ r.InfoCount = 0
    /\ r.AvgResponseTimeMs = ZeroFloat
    /\ r.MaxResponseTimeMs = 0
    /\ r.UniqueUsers = 0
    /\ r.UniqueEndpoints = 0

\* C34: Parse fails exactly on a body whose stream breaks (a read error or
\* a line over the scanner's limit), lines that do not decode never make it
\* fail; the Result built then is a failed one with the error of Parse, the
\* job's job_id and size, and zero for line_count, the level counts, the
\* average and maximum response time and the unique counts, whatever the
\* parser had accumulated before the break; the item written for it has
\* none of these attributes, and is the item of the job_id in the table.
C34_ParseFailureCarriesNoStatistics ==
    \A w \in DOMAIN wk :
        Events(w, "parse") # {} =>
           /\ ParseFailed(w) <=> StreamBreaks(wk[w].body)
           /\ ParseFailed(w) =>
                LET r == wk[w].result
                    item == MarshalMap(r)
                IN  /\ r.Status = "failed"
                    /\ r.ErrorMessage = "failed to parse logs"
                    /\ r.JobID = wk[w].job.JobID
                    /\ r.FileSizeBytes = wk[w].job.Size
                    /\ NoStatistics(r)
                    /\ DOMAIN item \cap AggregateAttributes = {}
                    /\ item["job_id"] = wk[w].job.JobID
                    /\ item["file_size_bytes"] = wk[w].job.Size
                    /\ parser[w] = Parse(NewLogAggregation, wk[w].body).state
                    /\ built[CurrentMessage(w)][Len(built[CurrentMessage(w)])]
                          = Statistics(r)
                    /\ PutSucceeded(w) => ItemsOf(store, r.JobID) = {item}

\* The stream broke after the parser had counted lines of the file; the
\* failed Result is written, and the item of the job_id has the job's size
\* and no statistics.
C34_Witness ==
    \E w \in DOMAIN wk :
        /\ ParseFailed(w)
        /\ PutSucceeded(w)
        /\ parser[w].ProcessedLines >= 1
        /\ parser[w].InfoCount >= 1
        /\ parser[w].MaxResponseMs > 0
        /\ \E item \in store :
             /\ item["job_id"] = wk[w].job.JobID
             /\ item["status"] = "failed"
             /\ item["file_size_bytes"] = ObjectSize(wk[w].job.Key)
             /\ DOMAIN item \cap AggregateAttributes = {}

-----------------------------------------------------------------------------
(* C35: the job_id from key to message to Result.                          *)

\* The message of w's current processMessage call: the one at which the
\* handler stands, or the one before it once the call has returned nil and
\* the handler has moved on.
CallMessage(w) ==
    wk[w].batch[IF Returned(w) /\ LastEvent(w).ok THEN wk[w].idx - 1 ELSE wk[w].idx]

\* The position in the queue of the message of notification i of the last
\* trigger invocation.
MessageOfRecord(i) ==
    trigLog.base + Cardinality({j \in QueuedRecords : j <= i})

\* The messages the trigger has put on the queue.
ValidatorMessages == {MessageOfRecord(i) : i \in QueuedRecords}

\* C35: the message queued for a notification has a JobID attribute equal
\* to the job_id member of its body, which is the test_id of the
\* notification's key, and its body's bucket and key are the notification's;
\* and this holds of the message in every state, delivered and redelivered
\* as it may be; a worker that decoded the message works on that Job, every
\* Result it builds and every item it puts has the message's job_id, and
\* every item of the table has the job_id of a message the trigger queued.
C35_JobIDStable ==
    /\ \A i \in QueuedRecords :
         LET m == MessageOfRecord(i)
             record == trigLog.records[i]
         IN  /\ m \in 1..Len(queue)
             /\ queue[m].body.kind = "object"
             /\ queue[m].body.fields["job_id"] = JStr(queue[m].attrJobID)
             /\ JobOf(m).ok
             /\ JobOf(m).job.JobID = queue[m].attrJobID
             /\ JobOf(m).job.JobID = ExtractTestID(record.key).jobID
             /\ JobOf(m).job.Bucket = record.bucket
             /\ JobOf(m).job.Key = record.key
    /\ \A w \in DOMAIN wk :
         Decoded(w) =>
            LET m == CallMessage(w)
            IN  /\ m \in ValidatorMessages
                /\ wk[w].job = JobOf(m).job
                /\ wk[w].pc \in {"save", "saveFailed"} =>
                      wk[w].result.JobID = queue[m].attrJobID
                /\ \A k \in Events(w, "put") :
                      TrailOf(w)[k].item["job_id"] = queue[m].attrJobID
    /\ \A item \in store :
         \E m \in ValidatorMessages : item["job_id"] = queue[m].attrJobID
    /\ \A id \in DOMAIN lastPut :
         /\ lastPut[id].item["job_id"] = id
         /\ \E m \in ValidatorMessages : id = queue[m].attrJobID

\* The message the trigger queued for a key is on its second delivery or
\* later, and the table holds an item written under its JobID attribute,
\* the test_id of the key, by an earlier delivery as well.
C35_Witness ==
    \E m \in ValidatorMessages :
        /\ queue[m].receiveCount >= 2
        /\ queue[m].attrJobID = "42"
        /\ queue[m].attrJobID \in DOMAIN lastPut
        /\ lastPut[queue[m].attrJobID].n >= 2
        /\ \E item \in store : item["job_id"] = queue[m].attrJobID
        /\ \E w \in DOMAIN wk : PutSucceeded(w) /\ wk[w].job.JobID = "42"

-----------------------------------------------------------------------------
(* C36: the key convention as the code tests it.                           *)

\* The positions of the underscores of a key.
Underscores(key) == {p \in 1..Len(key) : key[p] = "_"}

Least(S) == CHOOSE p \in S : \A q \in S : p <= q

\* The key has the json extension, whatever its case, at least two
\* underscores, and `logs/test` before the first.
AcceptedKey(key) ==
    /\ Len(key) >= 5
    /\ ToLower(SubSeq(key, Len(key) - 4, Len(key))) = DotJson
    /\ Cardinality(Underscores(key)) >= 2
    /\ SubSeq(key, 1, Least(Underscores(key)) - 1) = LogsTest

\* What stands between the first two underscores of such a key.
SecondSegment(key) ==
    LET first == Least(Underscores(key))
        second == Least(Underscores(key) \ {first})
    IN  Join(SubSeq(key, first + 1, second - 1))

\* The key up to its second underscore.
UpToSecondUnderscore(key) ==
    LET first == Least(Underscores(key))
    IN  SubSeq(key, 1, Least(Underscores(key) \ {first}))

\* What the trigger queued is what the convention, as the code tests it,
\* gives: a notification is queued exactly when its key has the json
\* extension, at least 3 underscore-delimited pieces, the first `logs/test`,
\* and HeadObject and SendMessage succeed; the job_id is what stands between
\* the first two underscores, whatever it is; two queued keys equal up to
\* the second underscore have the same job_id.
QueuedByConvention ==
    /\ \A i \in 1..Len(trigLog.records) :
         LET key == trigLog.records[i].key
         IN  /\ i \in QueuedRecords <=>
                   /\ AcceptedKey(key)
                   /\ trigLog.env[i].headOK
                   /\ trigLog.env[i].sendOK
             /\ i \in QueuedRecords =>
                   /\ JobOf(MessageOfRecord(i)).ok
                   /\ JobOf(MessageOfRecord(i)).job.JobID = SecondSegment(key)
                   /\ JobOf(MessageOfRecord(i)).job.Key = key
                   /\ key = KeyEmptyID => JobOf(MessageOfRecord(i)).job.JobID = ""
                   /\ key = KeyExtra => JobOf(MessageOfRecord(i)).job.JobID = "4"
    /\ \A i, j \in QueuedRecords :
         UpToSecondUnderscore(trigLog.records[i].key)
               = UpToSecondUnderscore(trigLog.records[j].key)
            => JobOf(MessageOfRecord(i)).job.JobID = JobOf(MessageOfRecord(j)).job.JobID

\* C36: after every invocation of the trigger, what it queued is what the
\* convention gives (QueuedByConvention): any key with the json extension
\* and `logs/test` before the first of at least two underscores is accepted,
\* and its job_id is the second piece unchecked, the empty string for
\* logs/test__x.json, "4" for logs/test_4_2_x.json, the same for two keys
\* that differ only after the second underscore; and the table holds at
\* most one item for a job_id, the last one put under it, however many
\* messages wrote under it.
C36_SecondSegmentUnchecked ==
    /\ [](/\ \A id \in DOMAIN lastPut : ItemsOf(store, id) = {lastPut[id].item}
          /\ \A item \in store : item["job_id"] \in DOMAIN lastPut)
    /\ [][trigLog' # trigLog => QueuedByConvention']_vars

\* The two objects of test 42 were queued under the one job_id "42", each
\* message's Result was built, completed, and written, the two differ, and
\* the table holds a single item: that of the one written last.
C36_Witness ==
    /\ Len(trigLog.records) = 2
    /\ QueuedRecords = {1, 2}
    /\ trigLog.records[1].key # trigLog.records[2].key
    /\ JobOf(1).job.JobID = "42"
    /\ JobOf(2).job.JobID = "42"
    /\ queue[1].state = "deleted"
    /\ queue[2].state = "deleted"
    /\ DOMAIN built = {1, 2}
    /\ built[1][Len(built[1])] # built[2][Len(built[2])]
    /\ "42" \in DOMAIN lastPut
    /\ lastPut["42"].n >= 2
    /\ Cardinality(store) = 1

====
